---- MODULE Spec2Model ----
(***************************************************************************)
(* PeptideBuilder: building a chain of monomers from internal coordinates. *)
(*                                                                         *)
(* Four specifications share this module.                                  *)
(*   Spec      the assembly engine: initialize_res / initialize_res_natural*)
(*             the ten add_residue variants and add_terminal_OXT, working  *)
(*             on a Bio.PDB Structure (models > chains > residues > atoms).*)
(*             An atom's coordinates are kept as the calculateCoordinates  *)
(*             call that produced them: its three reference atoms and its  *)
(*             three parameters.                                           *)
(*   SpecNeRF  calculateCoordinates itself, in exact arithmetic over       *)
(*             integer points.                                             *)
(*   SpecCap   add_terminal_OXT over many lengths and measured angles.     *)
(*   SpecRace  two add_residue calls interleaved on one assembly.          *)
(*                                                                         *)
(* Angles are integers counted in half degrees, so that values such as     *)
(* -360.5 exist; lengths are in hundredths.                                *)
(***************************************************************************)
EXTENDS Integers, Sequences, FiniteSets, TLC

\* ------------------------------------------------------------------ bounds

\* At most this many monomers in chain A.
MaxMonomers == 3
\* The reference points of SpecNeRF have coordinates within this of refC.
MaxCoord == 1

\* ------------------------------------------------------- program constants

\* add_residue(..., phi=-120, psi_im1=140, omega=-370)
DefaultPhi == -120
DefaultPsi == 140
DefaultOmega == -370
\* if omega > -361: geo.omega = omega
OmegaFloor == -361
\* add_terminal_OXT(structure, C_OXT_length = 1.23), in hundredths
DefaultOXTLength == 123
\* The omega of a bundle fresh from the catalog (Geometry.geometry).
CatalogOmega == 180
CatalogPhi == -120
CatalogPsi == 140

Deg(d) == d * 2

\* The one value of a one-element set: a value computed once and used often.
Only(S) == CHOOSE v \in S : TRUE

VARIABLES
  struc,    \* the assembly: a Bio.PDB Structure
  op,       \* the last call's function
  arg,      \* the last call's residue argument kind and omega argument
  ret,      \* what the last call returned: "structure" (the instance it was
            \* given), "res" (a Residue), "struc" (a new Structure), "none"
  exc,      \* the exception the last call raised, or NoExc
  bundle,   \* the parameter bundle the last call handed to its builder
  read,     \* whether the last call reached getReferenceResidue
  appended, \* successful append calls since the assembly was initialized
  built,    \* the sequence numbers of the monomers, in the order they were made
  given,    \* the lists the last call was given, when it was a chain maker
  geos,     \* the bundles the last call built its monomers from, likewise
  oxt,      \* what the last add_terminal_OXT measured and asked calculateCoordinates for
  threads,  \* SpecRace: where each of two concurrent append calls stands
  pA, pB, pC, pD,  \* SpecNeRF: the three reference points and the target
  placedAt  \* SpecNeRF: what calculateCoordinates returned for them

asmVars == <<struc, op, arg, ret, exc, bundle, read, appended, built, given, geos, oxt, threads>>
nerfVars == <<pA, pB, pC, pD, placedAt>>
vars == <<struc, op, arg, ret, exc, bundle, read, appended, built, given, geos, oxt, threads,
          pA, pB, pC, pD, placedAt>>

NoExc == "none"

\* ------------------------------------------------ parameter bundles (Geo)

\* The Geo classes the module imports from Geometry.
GeoTypes ==
  {"AlaGeo", "Ala_odd_Geo", "Ala_even_Geo", "linker_Ala_Geo", "LinkerGeo",
   "AAGeo", "AA_AAGeo", "HfsGeo", "HssGeo", "AA_odd_Geo", "AA_even_Geo",
   "LfsGeo", "LssGeo", "LtsGeo", "LfoGeo", "LfiGeo"}

\* A bundle: its class, its three backbone dihedrals, and the names of the
\* entries it lacks (reading one of them is an AttributeError; a function
\* reads its entries in the order of its statements).  Every other entry is
\* denoted by its name.
Geo(type, lacks) ==
  [type |-> type, lacks |-> lacks,
   phi |-> Deg(CatalogPhi), psi_im1 |-> Deg(CatalogPsi),
   omega |-> Deg(CatalogOmega)]

NoGeo == [type |-> "none", lacks |-> {}, phi |-> 0, psi_im1 |-> 0, omega |-> 0]

\* The catalog's kind identifiers; here one identifier per class.
\* geometry(kind) makes a fresh bundle with the catalog's defaults.
geometry(kind) ==
  IF kind \in GeoTypes
    THEN [exc |-> NoExc, val |-> Geo(kind, {})]
    ELSE [exc |-> "UnknownKind", val |-> NoGeo]

\* A residue argument: a bundle, a string, or something else.
GeoArg(geo) == [py |-> "Geo", s |-> "", geo |-> geo]
StrArg(s) == [py |-> "str", s |-> s, geo |-> NoGeo]
IntArg == [py |-> "int", s |-> "", geo |-> NoGeo]
NoResidue == [py |-> "none", s |-> "", geo |-> NoGeo]

\* An optional length argument: left out, or given in hundredths.
NoLength == [none |-> TRUE, val |-> 0]
Length(l) == [none |-> FALSE, val |-> l]

isinstance(residue, cls) == residue.py = cls

\* -------------------------------------------- Bio.PDB atoms and residues

\* Atom(name, coord, bfactor, occupancy, altloc, fullname, serial, element).
\* bfactor 0.0, occupancy 1.0, altloc " " and serial 0 are the same for
\* every atom and left out; parent is the residue the atom is built for.
Atom(name, coord, fullname, element, parent) ==
  [name |-> name, coord |-> coord, fullname |-> fullname,
   element |-> element, parent |-> parent]

\* An atom is referred to by its residue and its name: atom_id of an atom in
\* hand, own of an atom made earlier for the residue being built.
atom_id(atom) == <<atom.parent, atom.name>>
own(segID, name) == <<segID, name>>

\* The array calculateCoordinates(refA, refB, refC, geo.L, geo.ang, geo.di)
\* returns, denoted by the call: the three reference atoms and the names of
\* the three bundle entries.
placed(refA, refB, refC, geo, L, ang, di) ==
  [refs |-> <<refA, refB, refC>>,
   geo |-> geo.type, args |-> <<L, ang, di>>, given |-> 0]

\* A seed coordinate of initialize_res*: a direct formula over bundle entries.
seeded(geo, entries) ==
  [refs |-> <<>>, geo |-> geo.type, args |-> entries, given |-> 0]

None == [id |-> 0, resname |-> "None", child_list |-> <<>>]

has_id(entity, id) == \E i \in 1..Len(entity.child_list) : entity.child_list[i].name = id

\* Residue.__getitem__
child(entity, id) ==
  entity.child_list[CHOOSE i \in 1..Len(entity.child_list) : entity.child_list[i].name = id]

get_id(entity) == entity.id

\* resRef[name], as a reference atom
\* A variant of the read that reaches one monomer further back;
\* C19_NoForwardReferences tells it from the original.
ref_older(resRef, name) == <<get_id(resRef) - 1, name>>
ref(resRef, name) == atom_id(child(resRef, name))

\* Residue.add(atom): an atom name already present is refused.
residue_add(res, atom) ==
  IF has_id(res, atom.name)
    THEN [exc |-> "PDBConstructionException", val |-> res]
    ELSE [exc |-> NoExc, val |-> [res EXCEPT !.child_list = Append(@, atom)]]

\* A variant of Residue that labels the monomer with the class of the bundle
\* its atoms were built from; C30_KindLabels tells it from the original.
Residue_by_bundle(segID, resname, atoms) ==
  IF Cardinality({atoms[i].name : i \in 1..Len(atoms)}) # Len(atoms)
    THEN [exc |-> "PDBConstructionException", val |-> None]
    ELSE [exc |-> NoExc,
          val |-> [id |-> segID, resname |-> atoms[1].coord.geo, child_list |-> atoms]]

\* res = Residue((" ", segID, " "), resname, "    "); res.add(...) for each
\* atom in order: the first name met twice is refused.
Residue(segID, resname, atoms) ==
  IF Cardinality({atoms[i].name : i \in 1..Len(atoms)}) # Len(atoms)
    THEN [exc |-> "PDBConstructionException", val |-> None]
    ELSE [exc |-> NoExc,
          val |-> [id |-> segID, resname |-> resname, child_list |-> atoms]]

\* Bio.PDB.Polypeptide.is_aa(residue), standard=False:
\*   residue = f"{residue.get_resname():<3s}"; residue = residue.upper()
\*   return residue in protein_letters_3to1_extended
\* The name is padded to three characters, turned to upper case and looked
\* up in the library's table of three-letter names.  A name of the table is
\* kept here character by character.  A string of the model is the Python
\* string with every character outside ASCII, and the brace, written as its
\* code point in braces.
lower ==
  ("A" :> "a") @@ ("B" :> "b") @@ ("C" :> "c") @@ ("D" :> "d") @@ ("E" :> "e") @@
  ("F" :> "f") @@ ("G" :> "g") @@ ("H" :> "h") @@ ("I" :> "i") @@ ("J" :> "j") @@
  ("K" :> "k") @@ ("L" :> "l") @@ ("M" :> "m") @@ ("N" :> "n") @@ ("O" :> "o") @@
  ("P" :> "p") @@ ("Q" :> "q") @@ ("R" :> "r") @@ ("S" :> "s") @@ ("T" :> "t") @@
  ("U" :> "u") @@ ("V" :> "v") @@ ("W" :> "w") @@ ("X" :> "x") @@ ("Y" :> "y") @@
  ("Z" :> "z")
\* The library's table (Bio.Data.PDBData) names the standard and the
\* ambiguous residues and several hundred modified residues.  Listed are the
\* former and, of the latter, the names below; every name the builders give
\* a monomer is among them.  The table is not part of the source at hand:
\* is_aa answers for the listed names only.
protein_letters_3to1_extended ==
  {<<"A", "L", "A">>, <<"C", "Y", "S">>, <<"A", "S", "P">>, <<"G", "L", "U">>,
   <<"P", "H", "E">>, <<"G", "L", "Y">>, <<"H", "I", "S">>, <<"I", "L", "E">>,
   <<"L", "Y", "S">>, <<"L", "E", "U">>, <<"M", "E", "T">>, <<"A", "S", "N">>,
   <<"P", "R", "O">>, <<"G", "L", "N">>, <<"A", "R", "G">>, <<"S", "E", "R">>,
   <<"T", "H", "R">>, <<"V", "A", "L">>, <<"T", "R", "P">>, <<"T", "Y", "R">>,
   <<"A", "S", "X">>, <<"X", "A", "A">>, <<"G", "L", "X">>, <<"X", "L", "E">>,
   <<"S", "E", "C">>, <<"P", "Y", "L">>,
   <<"M", "S", "E">>, <<"F", "M", "E">>, <<"S", "E", "P">>, <<"T", "P", "O">>,
   <<"P", "T", "R">>, <<"H", "Y", "P">>, <<"C", "S", "O">>, <<"C", "M", "E">>,
   <<"C", "S", "D">>, <<"O", "C", "S">>, <<"K", "C", "X">>, <<"L", "L", "P">>,
   <<"M", "L", "Y">>, <<"M", "3", "L">>, <<"A", "L", "Y">>, <<"A", "B", "A">>,
   <<"A", "I", "B">>, <<"C", "G", "U">>, <<"T", "Y", "S">>, <<"N", "L", "E">>,
   <<"P", "C", "A">>, <<"S", "A", "R">>, <<"D", "A", "L">>, <<"D", "A", "R">>,
   <<"D", "A", "S">>, <<"D", "C", "Y">>, <<"D", "G", "L">>, <<"D", "G", "N">>,
   <<"D", "H", "I">>, <<"D", "I", "L">>, <<"D", "L", "E">>, <<"D", "L", "Y">>,
   <<"D", "P", "N">>, <<"D", "P", "R">>, <<"D", "S", "N">>, <<"D", "S", "G">>,
   <<"D", "T", "H">>, <<"D", "T", "R">>, <<"D", "T", "Y">>, <<"D", "V", "A">>}
\* Every string that str.upper turns into the name: a letter is the image of
\* itself and of its small letter, S also of the long s (U+017F), I also of
\* the dotless i (U+0131); any other character of a name is the image of
\* itself alone.  A character that str.upper turns into two or more (U+00DF,
\* the ligatures) makes the padded name longer than three.
Cased(name) ==
  LET spelt(ch) ==
        IF ch \notin DOMAIN lower THEN {ch}
        ELSE {ch, lower[ch]}
               \cup (IF ch = "S" THEN {"{U+017F}"} ELSE {})
               \cup (IF ch = "I" THEN {"{U+0131}"} ELSE {})
  IN  {a \o b \o c : a \in spelt(name[1]), b \in spelt(name[2]), c \in spelt(name[3])}
\* the spellings of the listed names: is_aa accepts each of them
AaNames == UNION {Cased(name) : name \in protein_letters_3to1_extended}
\* A name of a bundle class is longer than three characters and in no
\* table.  For any other name the answer depends on the part of the table
\* that is not listed, and is_aa is left undefined.
is_aa(res) ==
  CASE res.resname \in AaNames -> TRUE
    [] res.resname \in GeoTypes -> FALSE

\* ---------------------------------------------------------- the builders

\* makeHfs, lines 139-188
makeHfs(segID, N, CD1, CG, NB, CA, C, O, geo) ==
  LET S ==
        Atom("S", placed(atom_id(CD1), atom_id(CG), atom_id(NB),
          geo, "S_NB_length", "S_NB_CG_angle", "S_NB_CG_CD1_diangle"),
          " S", "S", segID)
      O1 ==
        Atom("O1", placed(atom_id(CG), atom_id(NB), own(segID, "S"),
          geo, "O1_S_length", "O1_S_NB_angle", "O1_S_NB_CG_diangle"),
          " O1", "O", segID)
      O2 ==
        Atom("O2", placed(atom_id(CA), atom_id(NB), own(segID, "S"),
          geo, "O2_S_length", "O2_S_NB_angle", "O2_S_NB_CA_diangle"),
          " O2", "O", segID)
      CD2 ==
        Atom("CD2", placed(atom_id(CG), atom_id(NB), own(segID, "S"),
          geo, "CD2_S_length", "CD2_S_NB_angle", "CD2_S_NB_CG_diangle"),
          " CD2", "C", segID)
      CE1 ==
        Atom("CE1", placed(atom_id(NB), atom_id(CG), atom_id(CD1),
          geo, "CE1_CD1_length", "CE1_CD1_CG_angle", "CE1_CD1_CG_NB_diangle"),
          " CE1", "C", segID)
  IN  IF geo.lacks \cap {"S_NB_length", "S_NB_CG_angle",
                         "S_NB_CG_CD1_diangle", "O1_S_length",
                         "O1_S_NB_angle", "O1_S_NB_CG_diangle", "O2_S_length",
                         "O2_S_NB_angle", "O2_S_NB_CA_diangle",
                         "CD2_S_length", "CD2_S_NB_angle",
                         "CD2_S_NB_CG_diangle", "CE1_CD1_length",
                         "CE1_CD1_CG_angle", "CE1_CD1_CG_NB_diangle"} # {}
        THEN [exc |-> "AttributeError", val |-> None] ELSE
      Residue(segID, "PHE",
        <<N, CD1, CG, NB, CA, C, O, S, O1, O2, CD2, CE1>>)

\* makeHss, lines 191-268
makeHss(segID, N, CD1, CG, NB, CA, C, O, geo) ==
  LET S ==
        Atom("S", placed(atom_id(CD1), atom_id(CG), atom_id(NB),
          geo, "S_NB_length", "S_NB_CG_angle", "S_NB_CG_CD1_diangle"),
          " S", "S", segID)
      O1 ==
        Atom("O1", placed(atom_id(CA), atom_id(NB), own(segID, "S"),
          geo, "O1_S_length", "O1_S_NB_angle", "O1_S_NB_CA_diangle"),
          " O1", "O", segID)
      O2 ==
        Atom("O2", placed(atom_id(CG), atom_id(NB), own(segID, "S"),
          geo, "O2_S_length", "O2_S_NB_angle", "O2_S_NB_CG_diangle"),
          " O2", "O", segID)
      C1 ==
        Atom("C1", placed(atom_id(CG), atom_id(NB), own(segID, "S"),
          geo, "C1_S_length", "C1_S_NB_angle", "C1_S_NB_CG_diangle"),
          " C1", "C", segID)
      CZ ==
        Atom("CZ", placed(atom_id(NB), own(segID, "S"), own(segID, "C1"),
          geo, "CZ_C1_length", "CZ_C1_S_angle", "CZ_C1_S_NB_diangle"),
          " CZ", "C", segID)
      NH ==
        Atom("NH", placed(own(segID, "S"), own(segID, "C1"), own(segID, "CZ"),
          geo, "NH_CZ_length", "NH_CZ_C1_angle", "NH_CZ_C1_S_diangle"),
          " NH", "N", segID)
      CE1 ==
        Atom("CE1", placed(atom_id(NB), atom_id(CG), atom_id(CD1),
          geo, "CE1_CD1_length", "CE1_CD1_CG_angle", "CE1_CD1_CG_NB_diangle"),
          " CE1", "C", segID)
      CG2 ==
        Atom("CG2", placed(atom_id(CG), atom_id(CD1), own(segID, "CE1"),
          geo, "CG2_CE1_lenth", "CG2_CE1_CD1_angle", "CG2_CE1_CD1_CG_diangle"),
          " CG2", "C", segID)
      CD2 ==
        Atom("CD2", placed(atom_id(CD1), own(segID, "CE1"), own(segID, "CG2"),
          geo, "CD2_CG2_length", "CD2_CG2_CE1_angle", "CD2_CG2_CE1_CD1_diangle"),
          " CD2", "C", segID)
      CD3 ==
        Atom("CD3", placed(atom_id(CD1), own(segID, "CE1"), own(segID, "CG2"),
          geo, "CD3_CG2_length", "CD3_CG2_CE1_angle", "CD3_CG2_CE1_CD1_diangle"),
          " CD3", "C", segID)
  IN  IF geo.lacks \cap {"S_NB_length", "S_NB_CG_angle",
                         "S_NB_CG_CD1_diangle", "C1_S_length",
                         "C1_S_NB_angle", "C1_S_NB_CG_diangle",
                         "CZ_C1_length", "CZ_C1_S_angle",
                         "CZ_C1_S_NB_diangle", "NH_CZ_length",
                         "NH_CZ_C1_angle", "NH_CZ_C1_S_diangle",
                         "O1_S_length", "O1_S_NB_angle", "O1_S_NB_CA_diangle",
                         "O2_S_length", "O2_S_NB_angle", "O2_S_NB_CG_diangle",
                         "CE1_CD1_length", "CE1_CD1_CG_angle",
                         "CE1_CD1_CG_NB_diangle", "CG2_CE1_lenth",
                         "CG2_CE1_CD1_angle", "CG2_CE1_CD1_CG_diangle",
                         "CD2_CG2_length", "CD2_CG2_CE1_angle",
                         "CD2_CG2_CE1_CD1_diangle", "CD3_CG2_length",
                         "CD3_CG2_CE1_angle", "CD3_CG2_CE1_CD1_diangle"} # {}
        THEN [exc |-> "AttributeError", val |-> None] ELSE
      Residue(segID, "PHE",
        <<N, CD1, CG, NB, CA, C, O, S, O1, O2, C1, CZ, NH, CE1, CG2, CD3, CD2>>)

\* makeAa, lines 270-381
makeAa(segID, N, CD1, CG, NB, CA, C, O, geo) ==
  LET CE1 ==
        Atom("CE1", placed(atom_id(NB), atom_id(CG), atom_id(CD1),
          geo, "CE1_CD1_length", "CE1_CD1_CG_angle", "CE1_CD1_CG_NB_diangle"),
          " CE1", "C", segID)
      SG ==
        Atom("SG", placed(atom_id(CD1), atom_id(CG), atom_id(NB),
          geo, "NB_SG_length", "CG_NB_SG_angle", "CD1_CG_NB_SG_diangle"),
          " SG", "S", segID)
      OD2 ==
        Atom("OD2", placed(atom_id(CA), atom_id(NB), own(segID, "SG"),
          geo, "OD2_SG_length", "OD2_SG_NB_angle", "CA_NB_SG_OD2_diangle"),
          " OD2", "O", segID)
      OD1 ==
        Atom("OD1", placed(atom_id(CG), atom_id(NB), own(segID, "SG"),
          geo, "OD1_SG_length", "OD1_SG_NB_angle", "CG_NB_SG_OD1_diangle"),
          " OD1", "O", segID)
      CD2 ==
        Atom("CD2", placed(atom_id(CG), atom_id(NB), own(segID, "SG"),
          geo, "SG_CD2_length", "NB_SG_CD2_angle", "CG_NB_SG_CD2_diangle"),
          " CD2", "C", segID)
      CE2 ==
        Atom("CE2", placed(atom_id(NB), own(segID, "SG"), own(segID, "CD2"),
          geo, "CD2_CE2_length", "SG_CD2_CE2_angle", "NB_SG_CD2_CE2_diangle"),
          " CE2", "C", segID)
      CZ1 ==
        Atom("CZ1", placed(own(segID, "SG"), own(segID, "CD2"), own(segID, "CE2"),
          geo, "CE2_CZ1_length", "CD2_CE2_CZ1_angle", "SG_CD2_CE2_CZ1_diangle"),
          " CZ1", "C", segID)
      CE3 ==
        Atom("CE3", placed(atom_id(NB), own(segID, "SG"), own(segID, "CD2"),
          geo, "CD2_CE3_length", "SG_CD2_CE3_angle", "NB_SG_CD2_CE3_diangle"),
          " CE3", "C", segID)
      CZ2 ==
        Atom("CZ2", placed(own(segID, "SG"), own(segID, "CD2"), own(segID, "CE3"),
          geo, "CE3_CZ2_length", "CD2_CE3_CZ2_angle", "SG_CD2_CE3_CZ2_diangle"),
          " CZ2", "C", segID)
      CH ==
        Atom("CH", placed(own(segID, "CD2"), own(segID, "CE2"), own(segID, "CZ1"),
          geo, "CZ1_CH_length", "CE2_CZ1_CH_angle", "CD2_CE2_CZ1_CH_diangle"),
          " CH", "C", segID)
      Cl17 ==
        Atom("Cl17", placed(own(segID, "CE2"), own(segID, "CZ1"), own(segID, "CH"),
          geo, "CH_Cl17_length", "CZ1_CH_Cl17_angle", "CE2_CZ1_CH_Cl17_diangle"),
          " Cl17", "CL", segID)
  IN  IF geo.lacks \cap {"CE1_CD1_length", "CE1_CD1_CG_angle",
                         "CE1_CD1_CG_NB_diangle", "NB_SG_length",
                         "CG_NB_SG_angle", "CD1_CG_NB_SG_diangle",
                         "OD2_SG_length", "OD2_SG_NB_angle",
                         "CA_NB_SG_OD2_diangle", "OD1_SG_length",
                         "OD1_SG_NB_angle", "CG_NB_SG_OD1_diangle",
                         "SG_CD2_length", "NB_SG_CD2_angle",
                         "CG_NB_SG_CD2_diangle", "CD2_CE2_length",
                         "SG_CD2_CE2_angle", "NB_SG_CD2_CE2_diangle",
                         "CE2_CZ1_length", "CD2_CE2_CZ1_angle",
                         "SG_CD2_CE2_CZ1_diangle", "CD2_CE3_length",
                         "SG_CD2_CE3_angle", "NB_SG_CD2_CE3_diangle",
                         "CE3_CZ2_length", "CD2_CE3_CZ2_angle",
                         "SG_CD2_CE3_CZ2_diangle", "CZ1_CH_length",
                         "CE2_CZ1_CH_angle", "CD2_CE2_CZ1_CH_diangle",
                         "CH_Cl17_length", "CZ1_CH_Cl17_angle",
                         "CE2_CZ1_CH_Cl17_diangle"} # {}
        THEN [exc |-> "AttributeError", val |-> None] ELSE
      Residue(segID, "PHE",
        <<N, CD1, CG, NB, CA, C, O, CE1, SG, OD1, OD2, CD2, CE2, CE3, CZ1, CZ2,
          CH, Cl17>>)

\* makeAA_AA, lines 384-394
makeAA_AA(segID, N, CD1, CG, NB, CA, C, O, geo) ==
  Residue(segID, "PHE",
    <<N, CD1, CG, NB, CA, C, O>>)

\* makeLfs, lines 395-455
makeLfs(segID, N, C1, C2, C3, C4, O1, N2, C5, C6, N3, C7, C8, O2, N4, C13, C14, CA, C, O, geo) ==
  LET C9 ==
        Atom("C9", placed(atom_id(C3), atom_id(C4), atom_id(N2),
          geo, "C9_N2_length", "C9_N2_C4_angle", "C9_N2_C4_C3_diangle"),
          " C9", "C", segID)
      C10 ==
        Atom("C10", placed(atom_id(C4), atom_id(N2), own(segID, "C9"),
          geo, "C10_C9_length", "C10_C9_N2_angle", "C10_C9_N2_C4_diangle"),
          " C10", "C", segID)
      C11 ==
        Atom("C11", placed(atom_id(N2), own(segID, "C9"), own(segID, "C10"),
          geo, "C11_C10_length", "C11_C10_C9_angle", "C11_C10_C9_N2_diangle"),
          " C11", "C", segID)
      S ==
        Atom("S", placed(atom_id(C5), atom_id(C6), atom_id(N3),
          geo, "S_N3_length", "S_N3_C6_angle", "S_N3_C6_C5_diangle"),
          " S", "S", segID)
      O4 ==
        Atom("O4", placed(atom_id(C7), atom_id(N3), own(segID, "S"),
          geo, "O4_S_length", "O4_S_N3_angle", "O4_S_N3_C7_diangle"),
          " O4", "O", segID)
      O5 ==
        Atom("O5", placed(atom_id(C6), atom_id(N3), own(segID, "S"),
          geo, "O5_S_length", "O5_S_N3_angle", "O5_S_N3_C6_diangle"),
          " O5", "O", segID)
      C12 ==
        Atom("C12", placed(atom_id(C6), atom_id(N3), own(segID, "S"),
          geo, "C12_S_length", "C12_S_N3_angle", "C12_S_N3_C6_diangle"),
          " C12", "C", segID)
  IN  IF geo.lacks \cap {"C9_N2_length", "C9_N2_C4_angle",
                         "C9_N2_C4_C3_diangle", "C10_C9_length",
                         "C10_C9_N2_angle", "C10_C9_N2_C4_diangle",
                         "C11_C10_length", "C11_C10_C9_angle",
                         "C11_C10_C9_N2_diangle", "S_N3_length",
                         "S_N3_C6_angle", "S_N3_C6_C5_diangle", "O4_S_length",
                         "O4_S_N3_angle", "O4_S_N3_C7_diangle", "O5_S_length",
                         "O5_S_N3_angle", "O5_S_N3_C6_diangle",
                         "C12_S_length", "C12_S_N3_angle",
                         "C12_S_N3_C6_diangle"} # {}
        THEN [exc |-> "AttributeError", val |-> None] ELSE
      Residue(segID, "SER",
        <<N, C1, C2, C3, C4, O1, N2, C5, C6, N3, C7, C8, O2, N4, C13, C14, CA, C,
          O, C9, C10, C11, S, O4, O5, C12>>)

\* makeLss, lines 457-519
makeLss(segID, NL, C1, C2, C3, C4, O1, N2, C5, C6, N3, C7, C8, O2, N4, C13, C14, C15, C16, C17, CL, O3, geo) ==
  LET C9 ==
        Atom("C9", placed(atom_id(C3), atom_id(C4), atom_id(N2),
          geo, "C9_N2_length", "C9_N2_C4_angle", "C9_N2_C4_C3_diangle"),
          " C9", "C", segID)
      C10 ==
        Atom("C10", placed(atom_id(C4), atom_id(N2), own(segID, "C9"),
          geo, "C10_C9_length", "C10_C9_N2_angle", "C10_C9_N2_C4_diangle"),
          " C10", "C", segID)
      C11 ==
        Atom("C11", placed(atom_id(N2), own(segID, "C9"), own(segID, "C10"),
          geo, "C11_C10_length", "C11_C10_C9_angle", "C11_C10_C9_N2_diangle"),
          " C11", "C", segID)
      S ==
        Atom("S", placed(atom_id(C5), atom_id(C6), atom_id(N3),
          geo, "S_N3_length", "S_N3_C6_angle", "S_N3_C6_C5_diangle"),
          " S", "S", segID)
      O4 ==
        Atom("O4", placed(atom_id(C7), atom_id(N3), own(segID, "S"),
          geo, "O4_S_length", "O4_S_N3_angle", "O4_S_N3_C7_diangle"),
          " O4", "O", segID)
      O5 ==
        Atom("O5", placed(atom_id(C6), atom_id(N3), own(segID, "S"),
          geo, "O5_S_length", "O5_S_N3_angle", "O5_S_N3_C6_diangle"),
          " O5", "O", segID)
      C12 ==
        Atom("C12", placed(atom_id(C6), atom_id(N3), own(segID, "S"),
          geo, "C12_S_length", "C12_S_N3_angle", "C12_S_N3_C6_diangle"),
          " C12", "C", segID)
  IN  IF geo.lacks \cap {"C9_N2_length", "C9_N2_C4_angle",
                         "C9_N2_C4_C3_diangle", "C10_C9_length",
                         "C10_C9_N2_angle", "C10_C9_N2_C4_diangle",
                         "C11_C10_length", "C11_C10_C9_angle",
                         "C11_C10_C9_N2_diangle", "S_N3_length",
                         "S_N3_C6_angle", "S_N3_C6_C5_diangle", "O4_S_length",
                         "O4_S_N3_angle", "O4_S_N3_C7_diangle", "O5_S_length",
                         "O5_S_N3_angle", "O5_S_N3_C6_diangle",
                         "C12_S_length", "C12_S_N3_angle",
                         "C12_S_N3_C6_diangle"} # {}
        THEN [exc |-> "AttributeError", val |-> None] ELSE
      Residue(segID, "SER",
        <<NL, C1, C2, C3, C4, O1, N2, C5, C6, N3, C7, C8, O2, N4, C13, C14, C15,
          C16, C17, CL, O3, C9, C10, C11, S, O4, O5, C12>>)

\* A variant of makeAla that adds CB a second time; C20_DistinctNames tells
\* it from the original.
makeAla_twice(segID, N, CA, C, O, geo) ==
  LET CB ==
        Atom("CB", placed(atom_id(N), atom_id(C), atom_id(CA),
          geo, "CB_CA_length", "CB_CA_C_angle", "CB_CA_C_N_diangle"),
          " CB", "C", segID)
  IN  IF geo.lacks \cap {"CB_CA_length", "CB_CA_C_angle", "CB_CA_C_N_diangle"} # {}
        THEN [exc |-> "AttributeError", val |-> None] ELSE
      Residue(segID, "ALA",
        <<N, CA, C, O, CB, CB>>)

\* makeAla, lines 521-536
makeAla(segID, N, CA, C, O, geo) ==
  LET CB ==
        Atom("CB", placed(atom_id(N), atom_id(C), atom_id(CA),
          geo, "CB_CA_length", "CB_CA_C_angle", "CB_CA_C_N_diangle"),
          " CB", "C", segID)
  IN  IF geo.lacks \cap {"CB_CA_length", "CB_CA_C_angle", "CB_CA_C_N_diangle"} # {}
        THEN [exc |-> "AttributeError", val |-> None] ELSE
      Residue(segID, "ALA",
        <<N, CA, C, O, CB>>)

\* make_odd_Aa, lines 537-603
make_odd_Aa(segID, N, CD1, CG, NB, CA, C, O, geo) ==
  LET CE1 ==
        Atom("CE1", placed(atom_id(NB), atom_id(CG), atom_id(CD1),
          geo, "CE1_CD1_length", "CE1_CD1_CG_angle", "CE1_CD1_CG_NB_diangle"),
          " CE1", "C", segID)
      SG ==
        Atom("SG", placed(atom_id(CD1), atom_id(CG), atom_id(NB),
          geo, "SG_NB_length", "SG_NB_CG_angle", "SG_NB_CG_CD1_diangle"),
          " SG", "S", segID)
      OD2 ==
        Atom("OD2", placed(atom_id(CA), atom_id(NB), own(segID, "SG"),
          geo, "OD2_SG_length", "OD2_SG_NB_angle", "OD2_SG_NB_CA_diangle"),
          " OD2", "O", segID)
      OD1 ==
        Atom("OD1", placed(atom_id(CG), atom_id(NB), own(segID, "SG"),
          geo, "OD1_SG_length", "OD1_SG_NB_angle", "OD1_SG_NB_CG_diangle"),
          " OD1", "O", segID)
      CD2 ==
        Atom("CD2", placed(atom_id(CG), atom_id(NB), own(segID, "SG"),
          geo, "CD2_SG_length", "CD2_SG_NB_angle", "CD2_SG_NB_CG_angle"),
          " CD2", "C", segID)
      CE2 ==
        Atom("CE2", placed(atom_id(NB), own(segID, "SG"), own(segID, "CD2"),
          geo, "CE2_CD2_length", "CE2_CD2_SG_angle", "CE2_CD2_SG_NB_diangle"),
          " CE2", "C", segID)
      CZ1 ==
        Atom("CZ1", placed(own(segID, "SG"), own(segID, "CD2"), own(segID, "CE2"),
          geo, "CZ1_CE2_length", "CZ1_CE2_CD2_angle", "CZ1_CE2_CD2_SG_diangle"),
          " CZ1", "C", segID)
      CE3 ==
        Atom("CE3", placed(atom_id(NB), own(segID, "SG"), own(segID, "CD2"),
          geo, "CE3_CD2_length", "CE3_CD2_SG_angle", "CE3_CD2_SG_NB_diangle"),
          " CE3", "C", segID)
      CZ2 ==
        Atom("CZ2", placed(own(segID, "SG"), own(segID, "CD2"), own(segID, "CE3"),
          geo, "CZ2_CE3_length", "CZ2_CE3_CD2_angle", "CZ2_CE3_CD2_SG_diangle"),
          " CZ2", "C", segID)
      CH ==
        Atom("CH", placed(own(segID, "CD2"), own(segID, "CE2"), own(segID, "CZ1"),
          geo, "CH_CZ1_length", "CH_CZ1_CE2_angle", "CH_CZ1_CE2_CD2_diangle"),
          " CH", "C", segID)
      Cl17 ==
        Atom("Cl17", placed(own(segID, "CE2"), own(segID, "CZ1"), own(segID, "CH"),
          geo, "Cl17_CH_length", "Cl17_CH_CZ1_angle", "Cl17_CH_CZ1_CE2_diangle"),
          " Cl17", "CL", segID)
  IN  IF geo.lacks \cap {"CE1_CD1_length", "CE1_CD1_CG_angle",
                         "CE1_CD1_CG_NB_diangle", "SG_NB_length",
                         "SG_NB_CG_angle", "SG_NB_CG_CD1_diangle",
                         "OD2_SG_length", "OD2_SG_NB_angle",
                         "OD2_SG_NB_CA_diangle", "OD1_SG_length",
                         "OD1_SG_NB_angle", "OD1_SG_NB_CG_diangle",
                         "CD2_SG_length", "CD2_SG_NB_angle",
                         "CD2_SG_NB_CG_angle", "CE2_CD2_length",
                         "CE2_CD2_SG_angle", "CE2_CD2_SG_NB_diangle",
                         "CZ1_CE2_length", "CZ1_CE2_CD2_angle",
                         "CZ1_CE2_CD2_SG_diangle", "CE3_CD2_length",
                         "CE3_CD2_SG_angle", "CE3_CD2_SG_NB_diangle",
                         "CZ2_CE3_length", "CZ2_CE3_CD2_angle",
                         "CZ2_CE3_CD2_SG_diangle", "CH_CZ1_length",
                         "CH_CZ1_CE2_angle", "CH_CZ1_CE2_CD2_diangle",
                         "Cl17_CH_length", "Cl17_CH_CZ1_angle",
                         "Cl17_CH_CZ1_CE2_diangle"} # {}
        THEN [exc |-> "AttributeError", val |-> None] ELSE
      Residue(segID, "PHE",
        <<N, CD1, CG, NB, CA, C, O, CE1, SG, OD1, OD2, CD2, CE2, CE3, CZ1, CZ2,
          CH, Cl17>>)

\* make_even_Aa, lines 604-670
make_even_Aa(segID, N, CD1, CG, NB, CA, C, O, geo) ==
  LET CE1 ==
        Atom("CE1", placed(atom_id(NB), atom_id(CG), atom_id(CD1),
          geo, "CE1_CD1_length", "CE1_CD1_CG_angle", "CE1_CD1_CG_NB_diangle"),
          " CE1", "C", segID)
      SG ==
        Atom("SG", placed(atom_id(CD1), atom_id(CG), atom_id(NB),
          geo, "SG_NB_length", "SG_NB_CG_angle", "SG_NB_CG_CD1_diangle"),
          " SG", "S", segID)
      OD2 ==
        Atom("OD2", placed(atom_id(CA), atom_id(NB), own(segID, "SG"),
          geo, "OD2_SG_length", "OD2_SG_NB_angle", "OD2_SG_NB_CA_diangle"),
          " OD2", "O", segID)
      OD1 ==
        Atom("OD1", placed(atom_id(CG), atom_id(NB), own(segID, "SG"),
          geo, "OD1_SG_length", "OD1_SG_NB_angle", "OD1_SG_NB_CG_diangle"),
          " OD1", "O", segID)
      CD2 ==
        Atom("CD2", placed(atom_id(CG), atom_id(NB), own(segID, "SG"),
          geo, "CD2_SG_length", "CD2_SG_NB_angle", "CD2_SG_NB_CG_angle"),
          " CD2", "C", segID)
      CE2 ==
        Atom("CE2", placed(atom_id(NB), own(segID, "SG"), own(segID, "CD2"),
          geo, "CE2_CD2_length", "CE2_CD2_SG_angle", "CE2_CD2_SG_NB_diangle"),
          " CE2", "C", segID)
      CZ1 ==
        Atom("CZ1", placed(own(segID, "SG"), own(segID, "CD2"), own(segID, "CE2"),
          geo, "CZ1_CE2_length", "CZ1_CE2_CD2_angle", "CZ1_CE2_CD2_SG_diangle"),
          " CZ1", "C", segID)
      CE3 ==
        Atom("CE3", placed(atom_id(NB), own(segID, "SG"), own(segID, "CD2"),
          geo, "CE3_CD2_length", "CE3_CD2_SG_angle", "CE3_CD2_SG_NB_diangle"),
          " CE3", "C", segID)
      CZ2 ==
        Atom("CZ2", placed(own(segID, "SG"), own(segID, "CD2"), own(segID, "CE3"),
          geo, "CZ2_CE3_length", "CZ2_CE3_CD2_angle", "CZ2_CE3_CD2_SG_diangle"),
          " CZ2", "C", segID)
      CH ==
        Atom("CH", placed(own(segID, "CD2"), own(segID, "CE2"), own(segID, "CZ1"),
          geo, "CH_CZ1_length", "CH_CZ1_CE2_angle", "CH_CZ1_CE2_CD2_diangle"),
          " CH", "C", segID)
      Cl17 ==
        Atom("Cl17", placed(own(segID, "CE2"), own(segID, "CZ1"), own(segID, "CH"),
          geo, "Cl17_CH_length", "Cl17_CH_CZ1_angle", "Cl17_CH_CZ1_CE2_diangle"),
          " Cl17", "CL", segID)
  IN  IF geo.lacks \cap {"CE1_CD1_length", "CE1_CD1_CG_angle",
                         "CE1_CD1_CG_NB_diangle", "SG_NB_length",
                         "SG_NB_CG_angle", "SG_NB_CG_CD1_diangle",
                         "OD2_SG_length", "OD2_SG_NB_angle",
                         "OD2_SG_NB_CA_diangle", "OD1_SG_length",
                         "OD1_SG_NB_angle", "OD1_SG_NB_CG_diangle",
                         "CD2_SG_length", "CD2_SG_NB_angle",
                         "CD2_SG_NB_CG_angle", "CE2_CD2_length",
                         "CE2_CD2_SG_angle", "CE2_CD2_SG_NB_diangle",
                         "CZ1_CE2_length", "CZ1_CE2_CD2_angle",
                         "CZ1_CE2_CD2_SG_diangle", "CE3_CD2_length",
                         "CE3_CD2_SG_angle", "CE3_CD2_SG_NB_diangle",
                         "CZ2_CE3_length", "CZ2_CE3_CD2_angle",
                         "CZ2_CE3_CD2_SG_diangle", "CH_CZ1_length",
                         "CH_CZ1_CE2_angle", "CH_CZ1_CE2_CD2_diangle",
                         "Cl17_CH_length", "Cl17_CH_CZ1_angle",
                         "Cl17_CH_CZ1_CE2_diangle"} # {}
        THEN [exc |-> "AttributeError", val |-> None] ELSE
      Residue(segID, "PHE",
        <<N, CD1, CG, NB, CA, C, O, CE1, SG, OD1, OD2, CD2, CE2, CE3, CZ1, CZ2,
          CH, Cl17>>)

\* make_odd_Ala, lines 671-686
make_odd_Ala(segID, N, CA, C, O, geo) ==
  LET CB ==
        Atom("CB", placed(atom_id(N), atom_id(C), atom_id(CA),
          geo, "CB_CA_length", "CB_CA_C_angle", "CB_CA_C_N_diangle"),
          " CB", "C", segID)
  IN  IF geo.lacks \cap {"CB_CA_length", "CB_CA_C_angle", "CB_CA_C_N_diangle"} # {}
        THEN [exc |-> "AttributeError", val |-> None] ELSE
      Residue(segID, "ALA",
        <<N, CA, C, O, CB>>)

\* make_even_Ala, lines 687-702
make_even_Ala(segID, N, CA, C, O, geo) ==
  LET CB ==
        Atom("CB", placed(atom_id(N), atom_id(C), atom_id(CA),
          geo, "CB_CA_length", "CB_CA_C_angle", "CB_CA_C_N_diangle"),
          " CB", "C", segID)
  IN  IF geo.lacks \cap {"CB_CA_length", "CB_CA_C_angle", "CB_CA_C_N_diangle"} # {}
        THEN [exc |-> "AttributeError", val |-> None] ELSE
      Residue(segID, "ALA",
        <<N, CA, C, O, CB>>)

\* makeLinker, lines 703-721
makeLinker(segID, N1, C5, C6, C7, C8, O3, N2, C9, C10, O4, N3, C11, C12, C13, C4, O2, geo) ==
  Residue(segID, "GLY",
    <<N1, C5, C6, C7, C8, O3, N2, C9, C10, O4, N3, C11, C12, C13, C4, O2>>)

\* make_linker_Ala, lines 722-737
make_linker_Ala(segID, N, CA, C, O, geo) ==
  LET CB ==
        Atom("CB", placed(atom_id(N), atom_id(C), atom_id(CA),
          geo, "CB_CA_length", "CB_CA_C_angle", "CB_CA_C_N_diangle"),
          " CB", "C", segID)
  IN  IF geo.lacks \cap {"CB_CA_length", "CB_CA_C_angle", "CB_CA_C_N_diangle"} # {}
        THEN [exc |-> "AttributeError", val |-> None] ELSE
      Residue(segID, "ALA",
        <<N, CA, C, O, CB>>)

\* ------------------------------------------------------- the dispatchers

\* A bundle of a class no branch names leaves res unbound: the return
\* raises UnboundLocalError.
make_res_of_type_natural(segID, N, CA, C, O, geo) ==
  IF geo.type = "AlaGeo" THEN makeAla(segID, N, CA, C, O, geo)
  ELSE IF geo.type = "Ala_odd_Geo" THEN make_odd_Ala(segID, N, CA, C, O, geo)
  ELSE IF geo.type = "Ala_even_Geo" THEN make_even_Ala(segID, N, CA, C, O, geo)
  ELSE IF geo.type = "linker_Ala_Geo" THEN make_linker_Ala(segID, N, CA, C, O, geo)
  ELSE [exc |-> "UnboundLocalError", val |-> None]

\* A variant of the dispatcher whose linker lacks the atom C4;
\* C25_TransitionConsistency tells it from the original.
make_res_of_type_linker_short(segID, N1, C5, C6, C7, C8, O3, N2, C9, C10, O4, N3, C11, C12, C13, C4, O2, geo) ==
  IF geo.type = "LinkerGeo"
    THEN LET made == makeLinker(segID, N1, C5, C6, C7, C8, O3, N2, C9, C10, O4, N3,
                                C11, C12, C13, C4, O2, geo)
         IN  [made EXCEPT !.val.child_list = SelectSeq(@, LAMBDA atom : atom.name # "C4")]
    ELSE [exc |-> "UnboundLocalError", val |-> None]

make_res_of_type_linker(segID, N1, C5, C6, C7, C8, O3, N2, C9, C10, O4, N3, C11, C12, C13, C4, O2, geo) ==
  IF geo.type = "LinkerGeo"
    THEN makeLinker(segID, N1, C5, C6, C7, C8, O3, N2, C9, C10, O4, N3,
                    C11, C12, C13, C4, O2, geo)
    ELSE [exc |-> "UnboundLocalError", val |-> None]

\* A variant of the dispatcher that builds a plain aa monomer from a bundle
\* of any other class; C26_FailureAtomicity tells it from the original.
make_res_of_type_aa_lenient(segID, N, CD1, CG, NB, CA, C, O, geo) ==
  IF geo.type = "AA_AAGeo" THEN makeAA_AA(segID, N, CD1, CG, NB, CA, C, O, geo)
  ELSE IF geo.type = "HfsGeo" THEN makeHfs(segID, N, CD1, CG, NB, CA, C, O, geo)
  ELSE IF geo.type = "HssGeo" THEN makeHss(segID, N, CD1, CG, NB, CA, C, O, geo)
  ELSE IF geo.type = "AA_odd_Geo" THEN make_odd_Aa(segID, N, CD1, CG, NB, CA, C, O, geo)
  ELSE IF geo.type = "AA_even_Geo" THEN make_even_Aa(segID, N, CD1, CG, NB, CA, C, O, geo)
  ELSE makeAa(segID, N, CD1, CG, NB, CA, C, O, geo)

make_res_of_type_aa(segID, N, CD1, CG, NB, CA, C, O, geo) ==
  IF geo.type = "AAGeo" THEN makeAa(segID, N, CD1, CG, NB, CA, C, O, geo)
  ELSE IF geo.type = "AA_AAGeo" THEN makeAA_AA(segID, N, CD1, CG, NB, CA, C, O, geo)
  ELSE IF geo.type = "HfsGeo" THEN makeHfs(segID, N, CD1, CG, NB, CA, C, O, geo)
  ELSE IF geo.type = "HssGeo" THEN makeHss(segID, N, CD1, CG, NB, CA, C, O, geo)
  ELSE IF geo.type = "AA_odd_Geo" THEN make_odd_Aa(segID, N, CD1, CG, NB, CA, C, O, geo)
  ELSE IF geo.type = "AA_even_Geo" THEN make_even_Aa(segID, N, CD1, CG, NB, CA, C, O, geo)
  ELSE [exc |-> "UnboundLocalError", val |-> None]

make_res_of_type_linker2_1(segID, N, C1, C2, C3, C4, O1, N2, C5, C6, N3, C7, C8, O2, N4, C13, C14, CA, C, O, geo) ==
  IF geo.type = "LfsGeo"
    THEN makeLfs(segID, N, C1, C2, C3, C4, O1, N2, C5, C6, N3, C7, C8, O2,
                 N4, C13, C14, CA, C, O, geo)
    ELSE [exc |-> "UnboundLocalError", val |-> None]

\* Here the return sits inside the branch: any other class falls off the end
\* and the function returns None.
make_res_of_type_linker2_3(segID, NL, C1, C2, C3, C4, O1, N2, C5, C6, N3, C7, C8, O2, N4, C13, C14, C15, C16, C17, CL, O3, geo) ==
  IF geo.type = "LssGeo"
    THEN makeLss(segID, NL, C1, C2, C3, C4, O1, N2, C5, C6, N3, C7, C8, O2,
                 N4, C13, C14, C15, C16, C17, CL, O3, geo)
    ELSE [exc |-> NoExc, val |-> None]

\* ------------------------------------------------------- the structure

\* Structure("X") > Model(0) > Chain("A") > residues
Chain(id) == [id |-> id, child_list |-> <<>>]
Model(id) == [id |-> id, child_list |-> <<>>]
Structure(id) == [id |-> id, child_list |-> <<>>]

\* Entity.has_id / Entity.__getitem__ / Entity.add for models, chains, residues
entity_has(entity, id) ==
  \E i \in 1..Len(entity.child_list) : entity.child_list[i].id = id
entity_at(entity, id) ==
  CHOOSE i \in 1..Len(entity.child_list) : entity.child_list[i].id = id
entity_get(entity, id) == entity.child_list[entity_at(entity, id)]
\* A variant of Entity.add that puts the new child first; C3_AppendOnly tells
\* it from the original.
entity_add_front(entity, item) ==
  [entity EXCEPT !.child_list = <<item>> \o @]
entity_add(entity, item) == [entity EXCEPT !.child_list = Append(@, item)]

\* The residues of chain A of model 0, <<>> when there is no such chain.
Monomers(structure) ==
  IF entity_has(structure, 0) /\ entity_has(entity_get(structure, 0), "A")
    THEN entity_get(entity_get(structure, 0), "A").child_list
    ELSE <<>>

\* structure[0]["A"].child_list[-1]
LastMonomer(structure) == Monomers(structure)[Len(Monomers(structure))]

\* What a call hands back: the exception it raised or NoExc, the structure as
\* the call left it, the value it returned, the bundle it built from, and
\* whether it reached getReferenceResidue.
Raise(e, structure) ==
  [exc |-> e, struc |-> structure, ret |-> "none", geo |-> NoGeo, read |-> FALSE]
RaiseIn(e, structure, geo) ==
  [exc |-> e, struc |-> structure, ret |-> "none", geo |-> geo, read |-> TRUE]
Return(value, structure, geo) ==
  [exc |-> NoExc, struc |-> structure, ret |-> value, geo |-> geo, read |-> TRUE]

\* A variant of getReferenceResidue that answers an empty chain the way it
\* answers a missing one; C9_EmptyAssembly tells it from the original.
getReferenceResidue_nochain(structure) ==
  IF ~entity_has(structure, 0) THEN [exc |-> "KeyError", val |-> None]
  ELSE IF ~entity_has(entity_get(structure, 0), "A")
    THEN [exc |-> "KeyError", val |-> None]
  ELSE LET child_list == entity_get(entity_get(structure, 0), "A").child_list IN
    IF child_list = <<>> THEN [exc |-> "KeyError", val |-> None]
    ELSE LET resRef == child_list[Len(child_list)] IN
      IF ~is_aa(resRef) THEN [exc |-> "AssertionError", val |-> None]
      ELSE [exc |-> NoExc, val |-> resRef]

getReferenceResidue(structure) ==
  IF ~entity_has(structure, 0) THEN [exc |-> "KeyError", val |-> None]
  ELSE IF ~entity_has(entity_get(structure, 0), "A")
    THEN [exc |-> "KeyError", val |-> None]
  ELSE LET child_list == entity_get(entity_get(structure, 0), "A").child_list IN
    IF child_list = <<>> THEN [exc |-> "IndexError", val |-> None]
    ELSE LET resRef == child_list[Len(child_list)] IN
      IF ~is_aa(resRef) THEN [exc |-> "AssertionError", val |-> None]
      ELSE [exc |-> NoExc, val |-> resRef]

\* A variant of the numbering that skips a number; C1_Numbering tells it from
\* the original.
next_segID_skip(resRef) == get_id(resRef) + 2

\* segID = resRef.get_id()[1]; segID += 1
next_segID(resRef) == get_id(resRef) + 1

\* A variant of the final add that slips res in before the last residue;
\* C14_TraversalOrder tells it from the original.
chain_add_inside(structure, res, value, geo) ==
  LET m == entity_at(structure, 0)
      c == entity_at(structure.child_list[m], "A")
      cha == structure.child_list[m].child_list[c]
      n == Len(cha.child_list)
  IN
  IF res = None THEN RaiseIn("AttributeError", structure, geo)
  ELSE IF entity_has(cha, get_id(res))
    THEN RaiseIn("PDBConstructionException", structure, geo)
  ELSE Return(value,
         [structure EXCEPT !.child_list[m].child_list[c].child_list =
            SubSeq(@, 1, n - 1) \o <<res, @[n]>>],
         geo)

\* A variant of the append that gives res the next free number when the
\* chain holds its number already; C23_Race tells it from the original.
chain_append_renumbering(structure, res) ==
  LET m == entity_at(structure, 0)
      c == entity_at(structure.child_list[m], "A")
      cha == structure.child_list[m].child_list[c]
  IN
  [structure EXCEPT !.child_list[m].child_list[c] =
     entity_add(@, IF entity_has(cha, get_id(res))
                     THEN [res EXCEPT !.id = get_id(LastMonomer(structure)) + 1]
                     ELSE res)]
\* Entity.add past its check, on chain A of model 0:
\* self.child_list.append(entity); self.child_dict[entity_id] = entity
chain_append(structure, res) ==
  LET m == entity_at(structure, 0)
      c == entity_at(structure.child_list[m], "A")
  IN
  [structure EXCEPT !.child_list[m].child_list[c] = entity_add(@, res)]

\* structure[0]["A"].add(res); return value.  Entity.add asks res for its id
\* (None has none) and refuses an id the chain already holds.
chain_add(structure, res, value, geo) ==
  LET m == entity_at(structure, 0)
      c == entity_at(structure.child_list[m], "A")
      cha == structure.child_list[m].child_list[c]
  IN
  IF res = None THEN RaiseIn("AttributeError", structure, geo)
  ELSE IF entity_has(cha, get_id(res))
    THEN RaiseIn("PDBConstructionException", structure, geo)
  ELSE Return(value, chain_append(structure, res), geo)

\* add_residue_from_geo_ala_aa, lines 933-978
add_residue_from_geo_ala_aa(structure, geo) ==
  Only({
    IF got.exc # NoExc THEN RaiseIn(got.exc, structure, geo) ELSE
    LET resRef == got.val
        segID == next_segID(resRef)
    IN
    IF geo.lacks \cap {"residue_name"} # {}
      THEN RaiseIn("AttributeError", structure, geo) ELSE
    IF \E k \in {"N", "CA", "C"} : ~has_id(resRef, k)
      THEN RaiseIn("KeyError", structure, geo) ELSE
    IF geo.lacks \cap {"N_C_length", "N_C_CA_angle", "N_C_CA_N_diangle",
                       "CD1_N_length", "CD1_N_C_angle", "CD1_N_C_CA_diangle",
                       "CG_CD1_length", "CG_CD1_N_angle",
                       "CG_CD1_N_C_diangle", "NB_CG_length",
                       "NB_CG_CD1_angle", "NB_CG_CD1_N_diangle",
                       "CA_NB_length", "CA_NB_CG_angle",
                       "CA_NB_CG_CD1_diangle", "C_CA_length", "C_CA_NB_angle",
                       "C_CA_NB_CG_diangle", "O_C_length", "O_C_CA_angle",
                       "O_C_CA_NB_diangle"} # {}
      THEN RaiseIn("AttributeError", structure, geo) ELSE
    LET N ==
          Atom("N", placed(ref(resRef, "N"), ref(resRef, "CA"), ref(resRef, "C"),
            geo, "N_C_length", "N_C_CA_angle", "N_C_CA_N_diangle"),
            " N", "N", segID)
        CD1 ==
          Atom("CD1", placed(ref(resRef, "CA"), ref(resRef, "C"), own(segID, "N"),
            geo, "CD1_N_length", "CD1_N_C_angle", "CD1_N_C_CA_diangle"),
            " CD1", "C", segID)
        CG ==
          Atom("CG", placed(ref(resRef, "C"), own(segID, "N"), own(segID, "CD1"),
            geo, "CG_CD1_length", "CG_CD1_N_angle", "CG_CD1_N_C_diangle"),
            " CG", "C", segID)
        NB ==
          Atom("NB", placed(own(segID, "N"), own(segID, "CD1"), own(segID, "CG"),
            geo, "NB_CG_length", "NB_CG_CD1_angle", "NB_CG_CD1_N_diangle"),
            " NB", "N", segID)
        CA ==
          Atom("CA", placed(own(segID, "CD1"), own(segID, "CG"), own(segID, "NB"),
            geo, "CA_NB_length", "CA_NB_CG_angle", "CA_NB_CG_CD1_diangle"),
            " CA", "C", segID)
        C ==
          Atom("C", placed(own(segID, "CG"), own(segID, "NB"), own(segID, "CA"),
            geo, "C_CA_length", "C_CA_NB_angle", "C_CA_NB_CG_diangle"),
            " C", "C", segID)
        O ==
          Atom("O", placed(own(segID, "NB"), own(segID, "CA"), own(segID, "C"),
            geo, "O_C_length", "O_C_CA_angle", "O_C_CA_NB_diangle"),
            " O", "O", segID)
    IN
    Only({IF res.exc # NoExc THEN RaiseIn(res.exc, structure, geo)
          ELSE chain_add(structure, res.val, "structure", geo)
          : res \in {make_res_of_type_aa(segID, N, CD1, CG, NB, CA, C, O, geo)}})
    : got \in {getReferenceResidue(structure)}})

\* add_residue_from_geo_aa_ala, lines 996-1035
add_residue_from_geo_aa_ala(structure, geo) ==
  Only({
    IF got.exc # NoExc THEN RaiseIn(got.exc, structure, geo) ELSE
    LET resRef == got.val
        segID == next_segID(resRef)
    IN
    IF geo.lacks \cap {"residue_name"} # {}
      THEN RaiseIn("AttributeError", structure, geo) ELSE
    IF \E k \in {"NB", "CA", "C"} : ~has_id(resRef, k)
      THEN RaiseIn("KeyError", structure, geo) ELSE
    IF geo.lacks \cap {"N_C_length", "N_C_CA_angle", "N_C_CA_NB_diangle",
                       "CA_N_length", "CA_N_C_angle", "CA_N_C_CA_diangle",
                       "C_CA_length", "C_CA_N_angle", "C_CA_N_C_diangle",
                       "C_O_length", "CA_C_O_angle", "N_CA_C_O_diangle"} # {}
      THEN RaiseIn("AttributeError", structure, geo) ELSE
    LET N ==
          Atom("N", placed(ref(resRef, "NB"), ref(resRef, "CA"), ref(resRef, "C"),
            geo, "N_C_length", "N_C_CA_angle", "N_C_CA_NB_diangle"),
            " N", "N", segID)
        CA ==
          Atom("CA", placed(ref(resRef, "CA"), ref(resRef, "C"), own(segID, "N"),
            geo, "CA_N_length", "CA_N_C_angle", "CA_N_C_CA_diangle"),
            " CA", "C", segID)
        C ==
          Atom("C", placed(ref(resRef, "C"), own(segID, "N"), own(segID, "CA"),
            geo, "C_CA_length", "C_CA_N_angle", "C_CA_N_C_diangle"),
            " C", "C", segID)
        O ==
          Atom("O", placed(own(segID, "N"), own(segID, "CA"), own(segID, "C"),
            geo, "C_O_length", "CA_C_O_angle", "N_CA_C_O_diangle"),
            " O", "O", segID)
    IN
    Only({IF res.exc # NoExc THEN RaiseIn(res.exc, structure, geo)
          ELSE chain_add(structure, res.val, "structure", geo)
          : res \in {make_res_of_type_natural(segID, N, CA, C, O, geo)}})
    : got \in {getReferenceResidue(structure)}})

\* add_residue_from_geo_alalinker, lines 1056-1163
add_residue_from_geo_alalinker(structure, geo) ==
  Only({
    IF got.exc # NoExc THEN RaiseIn(got.exc, structure, geo) ELSE
    LET resRef == got.val
        segID == next_segID(resRef)
    IN
    IF geo.lacks \cap {"residue_name", "N1_C_length", "N1_C_CA_angle",
                       "N1_C_CA_N_diangle", "C5_N1_length", "C5_N1_C_angle",
                       "C5_N1_C_CA_diangle", "C6_C5_length", "C6_C5_N1_angle",
                       "C6_C5_N1_C_diangle", "C7_C6_length", "C7_C6_C5_angle",
                       "C7_C6_C5_N1_diangle", "C8_C7_length",
                       "C8_C7_C6_angle", "C8_C7_C6_C5_diangle",
                       "O3_C8_length", "O3_C8_C7_angle",
                       "O3_C8_C7_C6_diangle", "N2_C8_length",
                       "N2_C8_C7_angle", "N2_C8_C7_C6_diangle",
                       "C9_N2_length", "C9_N2_C8_angle",
                       "C9_N2_C8_C7_diangle", "C10_C9_length",
                       "C10_C9_N2_angle", "C10_C9_N2_C8_diangle",
                       "O4_C10_length", "O4_C10_C9_angle",
                       "O4_C10_C9_N2_diangle", "N3_C10_length",
                       "N3_C10_C9_angle", "N3_C10_C9_N2_diangle",
                       "C11_N3_length", "C11_N3_C10_angle",
                       "C11_N3_C10_C9_diangle", "C12_C11_length",
                       "C12_C11_N3_angle", "C12_C11_N3_C10_diangle",
                       "C13_C12_length", "C13_C12_C11_angle",
                       "C13_C12_C11_N3_diangle"} # {}
      THEN RaiseIn("AttributeError", structure, geo) ELSE
    IF \E k \in {"N", "CA", "C"} : ~has_id(resRef, k)
      THEN RaiseIn("KeyError", structure, geo) ELSE
    IF geo.lacks \cap {"C4_C13_length", "C4_C13_C12_angle",
                       "C4_C13_C12_C11_diangle", "O2_C4_length",
                       "O2_C4_C13_angle", "O2_C4_C13_C12_diangle"} # {}
      THEN RaiseIn("AttributeError", structure, geo) ELSE
    LET N1 ==
          Atom("N", placed(ref(resRef, "N"), ref(resRef, "CA"), ref(resRef, "C"),
            geo, "N1_C_length", "N1_C_CA_angle", "N1_C_CA_N_diangle"),
            " N", "N", segID)
        C5 ==
          Atom("CA", placed(ref(resRef, "CA"), ref(resRef, "C"), own(segID, "N"),
            geo, "C5_N1_length", "C5_N1_C_angle", "C5_N1_C_CA_diangle"),
            " CG", "C", segID)
        C6 ==
          Atom("CB", placed(ref(resRef, "C"), own(segID, "N"), own(segID, "CA"),
            geo, "C6_C5_length", "C6_C5_N1_angle", "C6_C5_N1_C_diangle"),
            " CB", "C", segID)
        C7 ==
          Atom("CG", placed(own(segID, "N"), own(segID, "CA"), own(segID, "CB"),
            geo, "C7_C6_length", "C7_C6_C5_angle", "C7_C6_C5_N1_diangle"),
            " CA", "C", segID)
        C8 ==
          Atom("C", placed(own(segID, "CA"), own(segID, "CB"), own(segID, "CG"),
            geo, "C8_C7_length", "C8_C7_C6_angle", "C8_C7_C6_C5_diangle"),
            " C", "C", segID)
        O3 ==
          Atom("O", placed(own(segID, "CB"), own(segID, "CG"), own(segID, "C"),
            geo, "O3_C8_length", "O3_C8_C7_angle", "O3_C8_C7_C6_diangle"),
            " O", "O", segID)
        N2 ==
          Atom("N2", placed(own(segID, "CB"), own(segID, "CG"), own(segID, "C"),
            geo, "N2_C8_length", "N2_C8_C7_angle", "N2_C8_C7_C6_diangle"),
            " N", "N", segID)
        C9 ==
          Atom("C9", placed(own(segID, "CG"), own(segID, "C"), own(segID, "N2"),
            geo, "C9_N2_length", "C9_N2_C8_angle", "C9_N2_C8_C7_diangle"),
            " CA", "C", segID)
        C10 ==
          Atom("C10", placed(own(segID, "C"), own(segID, "N2"), own(segID, "C9"),
            geo, "C10_C9_length", "C10_C9_N2_angle", "C10_C9_N2_C8_diangle"),
            " C", "C", segID)
        O4 ==
          Atom("O4", placed(own(segID, "N2"), own(segID, "C9"), own(segID, "C10"),
            geo, "O4_C10_length", "O4_C10_C9_angle", "O4_C10_C9_N2_diangle"),
            " O", "O", segID)
        N3 ==
          Atom("N3", placed(own(segID, "N2"), own(segID, "C9"), own(segID, "C10"),
            geo, "N3_C10_length", "N3_C10_C9_angle", "N3_C10_C9_N2_diangle"),
            " N", "N", segID)
        C11 ==
          Atom("C11", placed(own(segID, "C9"), own(segID, "C10"), own(segID, "N3"),
            geo, "C11_N3_length", "C11_N3_C10_angle", "C11_N3_C10_C9_diangle"),
            " CG", "C", segID)
        C12 ==
          Atom("C12", placed(own(segID, "C10"), own(segID, "N3"), own(segID, "C11"),
            geo, "C12_C11_length", "C12_C11_N3_angle", "C12_C11_N3_C10_diangle"),
            " CB", "C", segID)
        C13 ==
          Atom("C13", placed(own(segID, "N3"), own(segID, "C11"), own(segID, "C12"),
            geo, "C13_C12_length", "C13_C12_C11_angle", "C13_C12_C11_N3_diangle"),
            " CA", "C", segID)
        C4 ==
          Atom("C4", placed(own(segID, "C11"), own(segID, "C12"), own(segID, "C13"),
            geo, "C4_C13_length", "C4_C13_C12_angle", "C4_C13_C12_C11_diangle"),
            " C", "C", segID)
        O2 ==
          Atom("O2", placed(own(segID, "C12"), own(segID, "C13"), own(segID, "C4"),
            geo, "O2_C4_length", "O2_C4_C13_angle", "O2_C4_C13_C12_diangle"),
            " O", "O", segID)
    IN
    Only({IF res.exc # NoExc THEN RaiseIn(res.exc, structure, geo)
          ELSE chain_add(structure, res.val, "res", geo)
          : res \in {make_res_of_type_linker(segID, N1, C5, C6, C7, C8, O3, N2, C9, C10, O4, N3, C11, C12, C13, C4,
                       O2, geo)}})
    : got \in {getReferenceResidue(structure)}})

\* add_residue_from_geo_linker_ala, lines 1182-1214
add_residue_from_geo_linker_ala(structure, geo) ==
  Only({
    IF got.exc # NoExc THEN RaiseIn(got.exc, structure, geo) ELSE
    LET resRef == got.val
        segID == next_segID(resRef)
    IN
    IF geo.lacks \cap {"residue_name"} # {}
      THEN RaiseIn("AttributeError", structure, geo) ELSE
    IF \E k \in {"C12", "C13", "C4"} : ~has_id(resRef, k)
      THEN RaiseIn("KeyError", structure, geo) ELSE
    IF geo.lacks \cap {"N_C4_length", "N_C4_C13_angle",
                       "N_C4_C13_C12_diangle", "CA_N_length", "CA_N_C4_angle",
                       "CA_N_C4_C13_diangle", "C_CA_length", "C_CA_N_angle",
                       "C_CA_N_C4_diangle", "C_O_length", "CA_C_O_angle",
                       "N_CA_C_O_diangle"} # {}
      THEN RaiseIn("AttributeError", structure, geo) ELSE
    LET N ==
          Atom("N", placed(ref(resRef, "C12"), ref(resRef, "C13"), ref(resRef, "C4"),
            geo, "N_C4_length", "N_C4_C13_angle", "N_C4_C13_C12_diangle"),
            " N", "N", segID)
        CA ==
          Atom("CA", placed(ref(resRef, "C13"), ref(resRef, "C4"), own(segID, "N"),
            geo, "CA_N_length", "CA_N_C4_angle", "CA_N_C4_C13_diangle"),
            " CA", "C", segID)
        C ==
          Atom("C", placed(ref(resRef, "C4"), own(segID, "N"), own(segID, "CA"),
            geo, "C_CA_length", "C_CA_N_angle", "C_CA_N_C4_diangle"),
            " C", "C", segID)
        O ==
          Atom("O", placed(own(segID, "N"), own(segID, "CA"), own(segID, "C"),
            geo, "C_O_length", "CA_C_O_angle", "N_CA_C_O_diangle"),
            " O", "O", segID)
    IN
    Only({IF res.exc # NoExc THEN RaiseIn(res.exc, structure, geo)
          ELSE chain_add(structure, res.val, "structure", geo)
          : res \in {make_res_of_type_natural(segID, N, CA, C, O, geo)}})
    : got \in {getReferenceResidue(structure)}})

\* add_residue_from_geo, lines 1232-1313
add_residue_from_geo(structure, geo) ==
  Only({
    IF got.exc # NoExc THEN RaiseIn(got.exc, structure, geo) ELSE
    LET resRef == got.val
        segID == next_segID(resRef)
    IN
    IF geo.lacks \cap {"residue_name", "peptide_bond", "CA_C_N_angle",
                       "CG_NB_CA_C_diangle1", "NB_CA_C_N_diangle", "a", "c",
                       "N_CD1_CG_NB_diangle", "CA_NB_length", "CA_C_length",
                       "NB_CA_C_angle", "C_N_CD1_angle", "N_CD1_length",
                       "N_CD1_CG_angle", "CD1_CG_length", "CD1_CG_NB_angle",
                       "CG_NB_length", "CG_NB_CA_angle", "CA_C_N_CD1_diangle"} # {}
      THEN RaiseIn("AttributeError", structure, geo) ELSE
    IF \E k \in {"NB", "CA", "C"} : ~has_id(resRef, k)
      THEN RaiseIn("KeyError", structure, geo) ELSE
    IF geo.lacks \cap {"C_O_length", "CA_C_O_angle", "NB_CA_C_O_diangle1"} # {}
      THEN RaiseIn("AttributeError", structure, geo) ELSE
    LET N ==
          Atom("N", placed(ref(resRef, "NB"), ref(resRef, "CA"), ref(resRef, "C"),
            geo, "peptide_bond", "CA_C_N_angle", "NB_CA_C_N_diangle"),
            " N", "N", segID)
        CD1 ==
          Atom("CD1", placed(ref(resRef, "CA"), ref(resRef, "C"), own(segID, "N"),
            geo, "N_CD1_length", "C_N_CD1_angle", "CA_C_N_CD1_diangle"),
            " CD1", "C", segID)
        CG ==
          Atom("CG", placed(ref(resRef, "C"), own(segID, "N"), own(segID, "CD1"),
            geo, "CD1_CG_length", "N_CD1_CG_angle", "c"),
            " CG", "C", segID)
        NB ==
          Atom("NB", placed(own(segID, "N"), own(segID, "CD1"), own(segID, "CG"),
            geo, "CG_NB_length", "CD1_CG_NB_angle", "N_CD1_CG_NB_diangle"),
            " NB", "N", segID)
        CA ==
          Atom("CA", placed(own(segID, "CD1"), own(segID, "CG"), own(segID, "NB"),
            geo, "CA_NB_length", "CG_NB_CA_angle", "a"),
            " CA", "C", segID)
        C ==
          Atom("C", placed(own(segID, "CG"), own(segID, "NB"), own(segID, "CA"),
            geo, "CA_C_length", "NB_CA_C_angle", "CG_NB_CA_C_diangle1"),
            " C", "C", segID)
        O ==
          Atom("O", placed(own(segID, "NB"), own(segID, "CA"), own(segID, "C"),
            geo, "C_O_length", "CA_C_O_angle", "NB_CA_C_O_diangle1"),
            " O", "O", segID)
    IN
    Only({IF res.exc # NoExc THEN RaiseIn(res.exc, structure, geo)
          ELSE chain_add(structure, res.val, "structure", geo)
          : res \in {make_res_of_type_aa(segID, N, CD1, CG, NB, CA, C, O, geo)}})
    : got \in {getReferenceResidue(structure)}})

\* add_residue_from_geo_AA_AA, lines 1316-1390
add_residue_from_geo_AA_AA(structure, geo) ==
  Only({
    IF got.exc # NoExc THEN RaiseIn(got.exc, structure, geo) ELSE
    LET resRef == got.val
        segID == next_segID(resRef)
    IN
    IF geo.lacks \cap {"residue_name", "N_C_length", "N_C_CA_angle",
                       "N_C_CA_NB_diangle", "CD1_N_length", "CD1_N_C_angle",
                       "CD1_N_C_CA_diangle", "CG_CD1_length",
                       "CG_CD1_N_angle", "CG_CD1_N_C_diangle", "NB_CG_length",
                       "NB_CG_CD1_angle", "NB_CG_CD1_N_diangle",
                       "CA_NB_length", "CA_NB_CG_angle",
                       "CA_NB_CG_CD1_diangle", "C_CA_length", "C_CA_NB_angle",
                       "C_CA_NB_CG_diangle"} # {}
      THEN RaiseIn("AttributeError", structure, geo) ELSE
    IF \E k \in {"NB", "CA", "C"} : ~has_id(resRef, k)
      THEN RaiseIn("KeyError", structure, geo) ELSE
    IF geo.lacks \cap {"C_O_length", "CA_C_O_angle", "NB_CA_C_O_diangle"} # {}
      THEN RaiseIn("AttributeError", structure, geo) ELSE
    LET N ==
          Atom("N", placed(ref(resRef, "NB"), ref(resRef, "CA"), ref(resRef, "C"),
            geo, "N_C_length", "N_C_CA_angle", "N_C_CA_NB_diangle"),
            " N", "N", segID)
        CD1 ==
          Atom("CD1", placed(ref(resRef, "CA"), ref(resRef, "C"), own(segID, "N"),
            geo, "CD1_N_length", "CD1_N_C_angle", "CD1_N_C_CA_diangle"),
            " CD1", "C", segID)
        CG ==
          Atom("CG", placed(ref(resRef, "C"), own(segID, "N"), own(segID, "CD1"),
            geo, "CG_CD1_length", "CG_CD1_N_angle", "CG_CD1_N_C_diangle"),
            " CG", "C", segID)
        NB ==
          Atom("NB", placed(own(segID, "N"), own(segID, "CD1"), own(segID, "CG"),
            geo, "NB_CG_length", "NB_CG_CD1_angle", "NB_CG_CD1_N_diangle"),
            " NB", "N", segID)
        CA ==
          Atom("CA", placed(own(segID, "CD1"), own(segID, "CG"), own(segID, "NB"),
            geo, "CA_NB_length", "CA_NB_CG_angle", "CA_NB_CG_CD1_diangle"),
            " CA", "C", segID)
        C ==
          Atom("C", placed(own(segID, "CG"), own(segID, "NB"), own(segID, "CA"),
            geo, "C_CA_length", "C_CA_NB_angle", "C_CA_NB_CG_diangle"),
            " C", "C", segID)
        O ==
          Atom("O", placed(own(segID, "NB"), own(segID, "CA"), own(segID, "C"),
            geo, "C_O_length", "CA_C_O_angle", "NB_CA_C_O_diangle"),
            " O", "O", segID)
    IN
    Only({IF res.exc # NoExc THEN RaiseIn(res.exc, structure, geo)
          ELSE chain_add(structure, res.val, "structure", geo)
          : res \in {make_res_of_type_aa(segID, N, CD1, CG, NB, CA, C, O, geo)}})
    : got \in {getReferenceResidue(structure)}})

\* add_residue_from_geo_aa_linker2_1, lines 1394-1519
add_residue_from_geo_aa_linker2_1(structure, geo) ==
  Only({
    IF got.exc # NoExc THEN RaiseIn(got.exc, structure, geo) ELSE
    LET resRef == got.val
        segID == next_segID(resRef)
    IN
    IF geo.lacks \cap {"residue_name", "NL_C_length", "NL_C_CA_angle",
                       "NL_C_CA_NB_diangle", "C1_NL_length", "C1_NL_C_angle",
                       "C1_NL_C_CA_diangle", "C2_C1_length", "C2_C1_NL_angle",
                       "C2_C1_NL_C_diangle", "C3_C2_length", "C3_C2_C1_angle",
                       "C3_C2_C1_NL_diangle", "C4_C3_length",
                       "C4_C3_C2_angle", "C4_C3_C2_C1_diangle",
                       "N2_C4_length", "N2_C4_C3_angle",
                       "N2_C4_C3_C2_diangle", "C5_N2_length",
                       "C5_N2_C4_angle", "C5_N2_C4_C3_diangle",
                       "C6_C5_length", "C6_C5_N2_angle",
                       "C6_C5_N2_C4_diangle", "N3_C6_length",
                       "N3_C6_C5_angle", "N3_C6_C5_N2_diangle",
                       "C7_N3_length", "C7_N3_C6_angle",
                       "C7_N3_C6_C5_diangle", "C8_C7_length",
                       "C8_C7_N3_angle", "C8_C7_N3_C6_diangle",
                       "N4_C8_length", "N4_C8_C7_angle",
                       "N4_C8_C7_N3_diangle", "C13_N4_length",
                       "C13_N4_C8_angle", "C13_N4_C8_C7_diangle",
                       "C14_C13_length", "C14_C13_N4_angle",
                       "C14_C13_N4_C8_diangle", "C15_C14_length",
                       "C15_C14_C13_angle", "C15_C14_C13_N4_diangle",
                       "CL_C15_length", "CL_C15_C14_angle",
                       "CL_C15_C14_C13_diangle"} # {}
      THEN RaiseIn("AttributeError", structure, geo) ELSE
    IF \E k \in {"NB", "CA", "C"} : ~has_id(resRef, k)
      THEN RaiseIn("KeyError", structure, geo) ELSE
    IF geo.lacks \cap {"O1_C4_length", "O1_C4_C3_angle",
                       "O1_C4_C3_C2_diangle", "O2_C8_length",
                       "O2_C8_C7_angle", "O2_C8_C7_N3_diangle",
                       "O3_CL_length", "O3_CL_C15_angle",
                       "O3_CL_C15_C14_diangle"} # {}
      THEN RaiseIn("AttributeError", structure, geo) ELSE
    LET N ==
          Atom("N", placed(ref(resRef, "NB"), ref(resRef, "CA"), ref(resRef, "C"),
            geo, "NL_C_length", "NL_C_CA_angle", "NL_C_CA_NB_diangle"),
            " N", "N", segID)
        C1 ==
          Atom("C1", placed(ref(resRef, "CA"), ref(resRef, "C"), own(segID, "N"),
            geo, "C1_NL_length", "C1_NL_C_angle", "C1_NL_C_CA_diangle"),
            " C1", "C", segID)
        C2 ==
          Atom("C2", placed(ref(resRef, "C"), own(segID, "N"), own(segID, "C1"),
            geo, "C2_C1_length", "C2_C1_NL_angle", "C2_C1_NL_C_diangle"),
            " C2", "C", segID)
        C3 ==
          Atom("C3", placed(own(segID, "N"), own(segID, "C1"), own(segID, "C2"),
            geo, "C3_C2_length", "C3_C2_C1_angle", "C3_C2_C1_NL_diangle"),
            " C3", "C", segID)
        C4 ==
          Atom("C4", placed(own(segID, "C1"), own(segID, "C2"), own(segID, "C3"),
            geo, "C4_C3_length", "C4_C3_C2_angle", "C4_C3_C2_C1_diangle"),
            " C4", "C", segID)
        O1 ==
          Atom("O1", placed(own(segID, "C2"), own(segID, "C3"), own(segID, "C4"),
            geo, "O1_C4_length", "O1_C4_C3_angle", "O1_C4_C3_C2_diangle"),
            " O1", "O", segID)
        N2 ==
          Atom("N2", placed(own(segID, "C2"), own(segID, "C3"), own(segID, "C4"),
            geo, "N2_C4_length", "N2_C4_C3_angle", "N2_C4_C3_C2_diangle"),
            " N2", "N", segID)
        C5 ==
          Atom("C5", placed(own(segID, "C3"), own(segID, "C4"), own(segID, "N2"),
            geo, "C5_N2_length", "C5_N2_C4_angle", "C5_N2_C4_C3_diangle"),
            " C5", "C", segID)
        C6 ==
          Atom("C6", placed(own(segID, "C4"), own(segID, "N2"), own(segID, "C5"),
            geo, "C6_C5_length", "C6_C5_N2_angle", "C6_C5_N2_C4_diangle"),
            " C6", "C", segID)
        N3 ==
          Atom("N3", placed(own(segID, "N2"), own(segID, "C5"), own(segID, "C6"),
            geo, "N3_C6_length", "N3_C6_C5_angle", "N3_C6_C5_N2_diangle"),
            " N3", "N", segID)
        C7 ==
          Atom("C7", placed(own(segID, "C5"), own(segID, "C6"), own(segID, "N3"),
            geo, "C7_N3_length", "C7_N3_C6_angle", "C7_N3_C6_C5_diangle"),
            " C7", "C", segID)
        C8 ==
          Atom("C8", placed(own(segID, "C6"), own(segID, "N3"), own(segID, "C7"),
            geo, "C8_C7_length", "C8_C7_N3_angle", "C8_C7_N3_C6_diangle"),
            " C8", "C", segID)
        O2 ==
          Atom("O2", placed(own(segID, "N3"), own(segID, "C7"), own(segID, "C8"),
            geo, "O2_C8_length", "O2_C8_C7_angle", "O2_C8_C7_N3_diangle"),
            " O2", "O", segID)
        N4 ==
          Atom("N4", placed(own(segID, "N3"), own(segID, "C7"), own(segID, "C8"),
            geo, "N4_C8_length", "N4_C8_C7_angle", "N4_C8_C7_N3_diangle"),
            " N4", "N", segID)
        C13 ==
          Atom("C13", placed(own(segID, "C7"), own(segID, "C8"), own(segID, "N4"),
            geo, "C13_N4_length", "C13_N4_C8_angle", "C13_N4_C8_C7_diangle"),
            " C13", "C", segID)
        C14 ==
          Atom("C14", placed(own(segID, "C8"), own(segID, "N4"), own(segID, "C13"),
            geo, "C14_C13_length", "C14_C13_N4_angle", "C14_C13_N4_C8_diangle"),
            " C14", "C", segID)
        CA ==
          Atom("CA", placed(own(segID, "N4"), own(segID, "C13"), own(segID, "C14"),
            geo, "C15_C14_length", "C15_C14_C13_angle", "C15_C14_C13_N4_diangle"),
            " CA", "C", segID)
        C ==
          Atom("C", placed(own(segID, "C13"), own(segID, "C14"), own(segID, "CA"),
            geo, "CL_C15_length", "CL_C15_C14_angle", "CL_C15_C14_C13_diangle"),
            " C", "C", segID)
        O ==
          Atom("O", placed(own(segID, "C14"), own(segID, "CA"), own(segID, "C"),
            geo, "O3_CL_length", "O3_CL_C15_angle", "O3_CL_C15_C14_diangle"),
            " O", "O", segID)
    IN
    Only({IF res.exc # NoExc THEN RaiseIn(res.exc, structure, geo)
          ELSE chain_add(structure, res.val, "structure", geo)
          : res \in {make_res_of_type_linker2_1(segID, N, C1, C2, C3, C4, O1, N2, C5, C6, N3, C7, C8, O2, N4, C13, C14,
                       CA, C, O, geo)}})
    : got \in {getReferenceResidue(structure)}})

\* add_residue_from_geo_aa_linker2_3, lines 1521-1589
add_residue_from_geo_aa_linker2_3(structure, geo) ==
  Only({
    IF got.exc # NoExc THEN RaiseIn(got.exc, structure, geo) ELSE
    LET resRef == got.val
        segID == next_segID(resRef)
    IN
    IF geo.lacks \cap {"residue_name"} # {}
      THEN RaiseIn("AttributeError", structure, geo) ELSE
    IF \E k \in {"NB", "CA", "C"} : ~has_id(resRef, k)
      THEN RaiseIn("KeyError", structure, geo) ELSE
    IF geo.lacks \cap {"NL_C_length", "NL_C_CA_angle", "NL_C_CA_NB_diangle",
                       "C1_NL_length", "C1_NL_C_angle", "C1_NL_C_CA_diangle",
                       "C2_C1_length", "C2_C1_NL_angle", "C2_C1_NL_C_diangle",
                       "C3_C2_length", "C3_C2_C1_angle",
                       "C3_C2_C1_NL_diangle", "C4_C3_length",
                       "C4_C3_C2_angle", "C4_C3_C2_C1_diangle",
                       "O1_C4_length", "O1_C4_C3_angle",
                       "O1_C4_C3_C2_diangle", "N2_C4_length",
                       "N2_C4_C3_angle", "N2_C4_C3_C2_diangle",
                       "C5_N2_length", "C5_N2_C4_angle",
                       "C5_N2_C4_C3_diangle", "C6_C5_length",
                       "C6_C5_N2_angle", "C6_C5_N2_C4_diangle",
                       "N3_C6_length", "N3_C6_C5_angle",
                       "N3_C6_C5_N2_diangle", "C7_N3_length",
                       "C7_N3_C6_angle", "C7_N3_C6_C5_diangle",
                       "C8_C7_length", "C8_C7_N3_angle",
                       "C8_C7_N3_C6_diangle", "O2_C8_length",
                       "O2_C8_C7_angle", "O2_C8_C7_N3_diangle",
                       "N4_C8_length", "N4_C8_C7_angle",
                       "N4_C8_C7_N3_diangle", "C13_N4_length",
                       "C13_N4_C8_angle", "C13_N4_C8_C7_diangle",
                       "C14_C13_length", "C14_C13_N4_angle",
                       "C14_C13_N4_C8_diangle", "C15_C14_length",
                       "C15_C14_C13_angle", "C15_C14_C13_N4_diangle",
                       "C16_C15_length", "C16_C15_C14_angle",
                       "C16_C15_C14_C13_diangle", "C17_C16_length",
                       "C17_C16_C15_angle", "C17_C16_C15_C14_diangle",
                       "CL_C17_length", "CL_C17_C16_angle",
                       "CL_C17_C16_C15_diangle", "O3_CL_length",
                       "O3_CL_C17_angle", "O3_CL_C17_C16_diangle"} # {}
      THEN RaiseIn("AttributeError", structure, geo) ELSE
    LET NL ==
          Atom("NL", placed(ref(resRef, "NB"), ref(resRef, "CA"), ref(resRef, "C"),
            geo, "NL_C_length", "NL_C_CA_angle", "NL_C_CA_NB_diangle"),
            " NL", "N", segID)
        C1 ==
          Atom("C1", placed(ref(resRef, "CA"), ref(resRef, "C"), own(segID, "NL"),
            geo, "C1_NL_length", "C1_NL_C_angle", "C1_NL_C_CA_diangle"),
            " C1", "C", segID)
        C2 ==
          Atom("C2", placed(ref(resRef, "C"), own(segID, "NL"), own(segID, "C1"),
            geo, "C2_C1_length", "C2_C1_NL_angle", "C2_C1_NL_C_diangle"),
            " C2", "C", segID)
        C3 ==
          Atom("C3", placed(own(segID, "NL"), own(segID, "C1"), own(segID, "C2"),
            geo, "C3_C2_length", "C3_C2_C1_angle", "C3_C2_C1_NL_diangle"),
            " C3", "C", segID)
        C4 ==
          Atom("C4", placed(own(segID, "C1"), own(segID, "C2"), own(segID, "C3"),
            geo, "C4_C3_length", "C4_C3_C2_angle", "C4_C3_C2_C1_diangle"),
            " C4", "C", segID)
        O1 ==
          Atom("O1", placed(own(segID, "C2"), own(segID, "C3"), own(segID, "C4"),
            geo, "O1_C4_length", "O1_C4_C3_angle", "O1_C4_C3_C2_diangle"),
            " O1", "O", segID)
        N2 ==
          Atom("N2", placed(own(segID, "C2"), own(segID, "C3"), own(segID, "C4"),
            geo, "N2_C4_length", "N2_C4_C3_angle", "N2_C4_C3_C2_diangle"),
            " N2", "N", segID)
        C5 ==
          Atom("C5", placed(own(segID, "C3"), own(segID, "C4"), own(segID, "N2"),
            geo, "C5_N2_length", "C5_N2_C4_angle", "C5_N2_C4_C3_diangle"),
            " C5", "C", segID)
        C6 ==
          Atom("C6", placed(own(segID, "C4"), own(segID, "N2"), own(segID, "C5"),
            geo, "C6_C5_length", "C6_C5_N2_angle", "C6_C5_N2_C4_diangle"),
            " C6", "C", segID)
        N3 ==
          Atom("N3", placed(own(segID, "N2"), own(segID, "C5"), own(segID, "C6"),
            geo, "N3_C6_length", "N3_C6_C5_angle", "N3_C6_C5_N2_diangle"),
            " N3", "N", segID)
        C7 ==
          Atom("C7", placed(own(segID, "C5"), own(segID, "C6"), own(segID, "N3"),
            geo, "C7_N3_length", "C7_N3_C6_angle", "C7_N3_C6_C5_diangle"),
            " C7", "C", segID)
        C8 ==
          Atom("C8", placed(own(segID, "C6"), own(segID, "N3"), own(segID, "C7"),
            geo, "C8_C7_length", "C8_C7_N3_angle", "C8_C7_N3_C6_diangle"),
            " C8", "C", segID)
        O2 ==
          Atom("O2", placed(own(segID, "N3"), own(segID, "C7"), own(segID, "C8"),
            geo, "O2_C8_length", "O2_C8_C7_angle", "O2_C8_C7_N3_diangle"),
            " O2", "O", segID)
        N4 ==
          Atom("N4", placed(own(segID, "N3"), own(segID, "C7"), own(segID, "C8"),
            geo, "N4_C8_length", "N4_C8_C7_angle", "N4_C8_C7_N3_diangle"),
            " N4", "N", segID)
        C13 ==
          Atom("C13", placed(own(segID, "C7"), own(segID, "C8"), own(segID, "N4"),
            geo, "C13_N4_length", "C13_N4_C8_angle", "C13_N4_C8_C7_diangle"),
            " C13", "C", segID)
        C14 ==
          Atom("C14", placed(own(segID, "C8"), own(segID, "N4"), own(segID, "C13"),
            geo, "C14_C13_length", "C14_C13_N4_angle", "C14_C13_N4_C8_diangle"),
            " C14", "C", segID)
        C15 ==
          Atom("C15", placed(own(segID, "N4"), own(segID, "C13"), own(segID, "C14"),
            geo, "C15_C14_length", "C15_C14_C13_angle", "C15_C14_C13_N4_diangle"),
            " C15", "C", segID)
        C16 ==
          Atom("C16", placed(own(segID, "C13"), own(segID, "C14"), own(segID, "C15"),
            geo, "C16_C15_length", "C16_C15_C14_angle", "C16_C15_C14_C13_diangle"),
            " C16", "C", segID)
        C17 ==
          Atom("C17", placed(own(segID, "C14"), own(segID, "C15"), own(segID, "C16"),
            geo, "C17_C16_length", "C17_C16_C15_angle", "C17_C16_C15_C14_diangle"),
            " C17", "C", segID)
        CL ==
          Atom("CL", placed(own(segID, "C15"), own(segID, "C16"), own(segID, "C17"),
            geo, "CL_C17_length", "CL_C17_C16_angle", "CL_C17_C16_C15_diangle"),
            " CL", "C", segID)
        O3 ==
          Atom("O3", placed(own(segID, "C16"), own(segID, "C17"), own(segID, "CL"),
            geo, "O3_CL_length", "O3_CL_C17_angle", "O3_CL_C17_C16_diangle"),
            " O3", "O", segID)
    IN
    Only({IF res.exc # NoExc THEN RaiseIn(res.exc, structure, geo)
          ELSE chain_add(structure, res.val, "structure", geo)
          : res \in {make_res_of_type_linker2_3(segID, NL, C1, C2, C3, C4, O1, N2, C5, C6, N3, C7, C8, O2, N4, C13,
                       C14, C15, C16, C17, CL, O3, geo)}})
    : got \in {getReferenceResidue(structure)}})

\* add_residue_from_geo_linker2_1_aa, lines 1591-1663
add_residue_from_geo_linker2_1_aa(structure, geo) ==
  Only({
    IF got.exc # NoExc THEN RaiseIn(got.exc, structure, geo) ELSE
    LET resRef == got.val
        segID == next_segID(resRef)
    IN
    IF geo.lacks \cap {"residue_name", "N_CL_length", "N_CL_C15_angle",
                       "N_CL_C15_C14_diangle", "N_CD1_length",
                       "CD1_N_CL_angle", "CD1_N_CL_C15_diangle",
                       "CD1_CG_length", "N_CD1_CG_angle",
                       "CG_CD1_N_CL_diangle", "CG_NB_length",
                       "CD1_CG_NB_angle", "N_CD1_CG_NB_diangle",
                       "CA_NB_length", "CG_NB_CA_angle", "a1", "CA_C_length",
                       "NB_CA_C_angle", "CG_NB_CA_C_diangle"} # {}
      THEN RaiseIn("AttributeError", structure, geo) ELSE
    IF \E k \in {"C14", "CA", "C"} : ~has_id(resRef, k)
      THEN RaiseIn("KeyError", structure, geo) ELSE
    IF geo.lacks \cap {"C_O_length", "CA_C_O_angle", "NB_CA_C_O_diangle"} # {}
      THEN RaiseIn("AttributeError", structure, geo) ELSE
    LET N ==
          Atom("N", placed(ref(resRef, "C14"), ref(resRef, "CA"), ref(resRef, "C"),
            geo, "N_CL_length", "N_CL_C15_angle", "N_CL_C15_C14_diangle"),
            " N", "N", segID)
        CD1 ==
          Atom("CD1", placed(ref(resRef, "CA"), ref(resRef, "C"), own(segID, "N"),
            geo, "N_CD1_length", "CD1_N_CL_angle", "CD1_N_CL_C15_diangle"),
            " CD1", "C", segID)
        CG ==
          Atom("CG", placed(ref(resRef, "C"), own(segID, "N"), own(segID, "CD1"),
            geo, "CD1_CG_length", "N_CD1_CG_angle", "CG_CD1_N_CL_diangle"),
            " CG", "C", segID)
        NB ==
          Atom("NB", placed(own(segID, "N"), own(segID, "CD1"), own(segID, "CG"),
            geo, "CG_NB_length", "CD1_CG_NB_angle", "N_CD1_CG_NB_diangle"),
            " NB", "N", segID)
        CA ==
          Atom("CA", placed(own(segID, "CD1"), own(segID, "CG"), own(segID, "NB"),
            geo, "CA_NB_length", "CG_NB_CA_angle", "a1"),
            " CA", "C", segID)
        C ==
          Atom("C", placed(own(segID, "CG"), own(segID, "NB"), own(segID, "CA"),
            geo, "CA_C_length", "NB_CA_C_angle", "CG_NB_CA_C_diangle"),
            " C", "C", segID)
        O ==
          Atom("O", placed(own(segID, "NB"), own(segID, "CA"), own(segID, "C"),
            geo, "C_O_length", "CA_C_O_angle", "NB_CA_C_O_diangle"),
            " O", "O", segID)
    IN
    Only({IF res.exc # NoExc THEN RaiseIn(res.exc, structure, geo)
          ELSE chain_add(structure, res.val, "structure", geo)
          : res \in {make_res_of_type_aa(segID, N, CD1, CG, NB, CA, C, O, geo)}})
    : got \in {getReferenceResidue(structure)}})

\* add_residue_from_geo_linker2_3_aa, lines 1664-1709
add_residue_from_geo_linker2_3_aa(structure, geo) ==
  Only({
    IF got.exc # NoExc THEN RaiseIn(got.exc, structure, geo) ELSE
    LET resRef == got.val
        segID == next_segID(resRef)
    IN
    IF geo.lacks \cap {"residue_name"} # {}
      THEN RaiseIn("AttributeError", structure, geo) ELSE
    IF \E k \in {"C16", "C17", "CL"} : ~has_id(resRef, k)
      THEN RaiseIn("KeyError", structure, geo) ELSE
    IF geo.lacks \cap {"N_CL_length", "N_CL_C15_angle",
                       "N_CL_C15_C14_diangle", "N_CD1_length",
                       "CD1_N_CL_angle", "CD1_N_CL_C15_diangle",
                       "CD1_CG_length", "N_CD1_CG_angle",
                       "CG_CD1_N_CL_diangle", "CG_NB_length",
                       "CD1_CG_NB_angle", "N_CD1_CG_NB_diangle",
                       "CA_NB_length", "CG_NB_CA_angle", "a1", "CA_C_length",
                       "NB_CA_C_angle", "CG_NB_CA_C_diangle", "C_O_length",
                       "CA_C_O_angle", "NB_CA_C_O_diangle"} # {}
      THEN RaiseIn("AttributeError", structure, geo) ELSE
    LET N ==
          Atom("N", placed(ref(resRef, "C16"), ref(resRef, "C17"), ref(resRef, "CL"),
            geo, "N_CL_length", "N_CL_C15_angle", "N_CL_C15_C14_diangle"),
            " N", "N", segID)
        CD1 ==
          Atom("CD1", placed(ref(resRef, "C17"), ref(resRef, "CL"), own(segID, "N"),
            geo, "N_CD1_length", "CD1_N_CL_angle", "CD1_N_CL_C15_diangle"),
            " CD1", "C", segID)
        CG ==
          Atom("CG", placed(ref(resRef, "CL"), own(segID, "N"), own(segID, "CD1"),
            geo, "CD1_CG_length", "N_CD1_CG_angle", "CG_CD1_N_CL_diangle"),
            " CG", "C", segID)
        NB ==
          Atom("NB", placed(own(segID, "N"), own(segID, "CD1"), own(segID, "CG"),
            geo, "CG_NB_length", "CD1_CG_NB_angle", "N_CD1_CG_NB_diangle"),
            " NB", "N", segID)
        CA ==
          Atom("CA", placed(own(segID, "CD1"), own(segID, "CG"), own(segID, "NB"),
            geo, "CA_NB_length", "CG_NB_CA_angle", "a1"),
            " CA", "C", segID)
        C ==
          Atom("C", placed(own(segID, "CG"), own(segID, "NB"), own(segID, "CA"),
            geo, "CA_C_length", "NB_CA_C_angle", "CG_NB_CA_C_diangle"),
            " C", "C", segID)
        O ==
          Atom("O", placed(own(segID, "NB"), own(segID, "CA"), own(segID, "C"),
            geo, "C_O_length", "CA_C_O_angle", "NB_CA_C_O_diangle"),
            " O", "O", segID)
    IN
    Only({IF res.exc # NoExc THEN RaiseIn(res.exc, structure, geo)
          ELSE chain_add(structure, res.val, "structure", geo)
          : res \in {make_res_of_type_aa(segID, N, CD1, CG, NB, CA, C, O, geo)}})
    : got \in {getReferenceResidue(structure)}})

\* ------------------------------------------- the add_residue wrappers

\* geometry(residue) raising is passed on; the three assignments follow it.
\* add_residue_ala_aa, lines 980-994
add_residue_ala_aa(structure, residue, phi, psi_im1, omega) ==
  IF isinstance(residue, "Geo")
    THEN add_residue_from_geo_ala_aa(structure, residue.geo)
  ELSE IF isinstance(residue, "str")
    THEN LET made == geometry(residue.s) IN
         IF made.exc # NoExc THEN Raise(made.exc, structure)
         ELSE LET geo == [made.val EXCEPT
                            !.phi = phi,
                            !.psi_im1 = psi_im1,
                            !.omega = IF omega > Deg(OmegaFloor) THEN omega ELSE @]
              IN  add_residue_from_geo_ala_aa(structure, geo)
  ELSE Raise("ValueError", structure)

\* A variant of add_residue_aa_ala that leaves psi_im1 unassigned;
\* C11_OnlyThreeEntries tells it from the original.
add_residue_aa_ala_nopsi(structure, residue, phi, psi_im1, omega) ==
  IF isinstance(residue, "Geo")
    THEN add_residue_from_geo_aa_ala(structure, residue.geo)
  ELSE IF isinstance(residue, "str")
    THEN LET made == geometry(residue.s) IN
         IF made.exc # NoExc THEN Raise(made.exc, structure)
         ELSE LET geo == [made.val EXCEPT
                            !.phi = phi,
                            !.omega = IF omega > Deg(OmegaFloor) THEN omega ELSE @]
              IN  add_residue_from_geo_aa_ala(structure, geo)
  ELSE Raise("ValueError", structure)

\* add_residue_aa_ala, lines 1037-1053
add_residue_aa_ala(structure, residue, phi, psi_im1, omega) ==
  IF isinstance(residue, "Geo")
    THEN add_residue_from_geo_aa_ala(structure, residue.geo)
  ELSE IF isinstance(residue, "str")
    THEN LET made == geometry(residue.s) IN
         IF made.exc # NoExc THEN Raise(made.exc, structure)
         ELSE LET geo == [made.val EXCEPT
                            !.phi = phi,
                            !.psi_im1 = psi_im1,
                            !.omega = IF omega > Deg(OmegaFloor) THEN omega ELSE @]
              IN  add_residue_from_geo_aa_ala(structure, geo)
  ELSE Raise("ValueError", structure)

\* add_residue_alalinker, lines 1165-1181
add_residue_alalinker(structure, residue, phi, psi_im1, omega) ==
  IF isinstance(residue, "Geo")
    THEN add_residue_from_geo_alalinker(structure, residue.geo)
  ELSE IF isinstance(residue, "str")
    THEN LET made == geometry(residue.s) IN
         IF made.exc # NoExc THEN Raise(made.exc, structure)
         ELSE LET geo == [made.val EXCEPT
                            !.phi = phi,
                            !.psi_im1 = psi_im1,
                            !.omega = IF omega > Deg(OmegaFloor) THEN omega ELSE @]
              IN  add_residue_from_geo_alalinker(structure, geo)
  ELSE Raise("ValueError", structure)

\* add_residue_linker_ala, lines 1215-1230
add_residue_linker_ala(structure, residue, phi, psi_im1, omega) ==
  IF isinstance(residue, "Geo")
    THEN add_residue_from_geo_linker_ala(structure, residue.geo)
  ELSE IF isinstance(residue, "str")
    THEN LET made == geometry(residue.s) IN
         IF made.exc # NoExc THEN Raise(made.exc, structure)
         ELSE LET geo == [made.val EXCEPT
                            !.phi = phi,
                            !.psi_im1 = psi_im1,
                            !.omega = IF omega > Deg(OmegaFloor) THEN omega ELSE @]
              IN  add_residue_from_geo_linker_ala(structure, geo)
  ELSE Raise("ValueError", structure)

\* A variant of add_residue without the final else: whatever is not a bundle
\* is looked up as a kind name; C8_InvalidArgument tells it from the original.
add_residue_unchecked(structure, residue, phi, psi_im1, omega) ==
  IF isinstance(residue, "Geo")
    THEN add_residue_from_geo(structure, residue.geo)
  ELSE LET made == geometry("?") IN Raise(made.exc, structure)

\* add_residue, lines 1726-1751
add_residue(structure, residue, phi, psi_im1, omega) ==
  IF isinstance(residue, "Geo")
    THEN add_residue_from_geo(structure, residue.geo)
  ELSE IF isinstance(residue, "str")
    THEN LET made == geometry(residue.s) IN
         IF made.exc # NoExc THEN Raise(made.exc, structure)
         ELSE LET geo == [made.val EXCEPT
                            !.phi = phi,
                            !.psi_im1 = psi_im1,
                            !.omega = IF omega > Deg(OmegaFloor) THEN omega ELSE @]
              IN  add_residue_from_geo(structure, geo)
  ELSE Raise("ValueError", structure)

\* A variant of add_residue_AA_AA that assigns the angles to a bundle it was
\* handed; C12_GeoIgnoresAngles tells it from the original.
add_residue_AA_AA_assigning(structure, residue, phi, psi_im1, omega) ==
  IF isinstance(residue, "Geo")
    THEN add_residue_from_geo_AA_AA(structure,
           [residue.geo EXCEPT !.phi = phi, !.psi_im1 = psi_im1,
              !.omega = IF omega > Deg(OmegaFloor) THEN omega ELSE @])
  ELSE IF isinstance(residue, "str")
    THEN LET made == geometry(residue.s) IN
         IF made.exc # NoExc THEN Raise(made.exc, structure)
         ELSE LET geo == [made.val EXCEPT
                            !.phi = phi,
                            !.psi_im1 = psi_im1,
                            !.omega = IF omega > Deg(OmegaFloor) THEN omega ELSE @]
              IN  add_residue_from_geo_AA_AA(structure, geo)
  ELSE Raise("ValueError", structure)

\* add_residue_AA_AA, lines 1754-1779
add_residue_AA_AA(structure, residue, phi, psi_im1, omega) ==
  IF isinstance(residue, "Geo")
    THEN add_residue_from_geo_AA_AA(structure, residue.geo)
  ELSE IF isinstance(residue, "str")
    THEN LET made == geometry(residue.s) IN
         IF made.exc # NoExc THEN Raise(made.exc, structure)
         ELSE LET geo == [made.val EXCEPT
                            !.phi = phi,
                            !.psi_im1 = psi_im1,
                            !.omega = IF omega > Deg(OmegaFloor) THEN omega ELSE @]
              IN  add_residue_from_geo_AA_AA(structure, geo)
  ELSE Raise("ValueError", structure)

\* add_residue_aa_linker2_1, lines 1782-1807
add_residue_aa_linker2_1(structure, residue, phi, psi_im1, omega) ==
  IF isinstance(residue, "Geo")
    THEN add_residue_from_geo_aa_linker2_1(structure, residue.geo)
  ELSE IF isinstance(residue, "str")
    THEN LET made == geometry(residue.s) IN
         IF made.exc # NoExc THEN Raise(made.exc, structure)
         ELSE LET geo == [made.val EXCEPT
                            !.phi = phi,
                            !.psi_im1 = psi_im1,
                            !.omega = IF omega > Deg(OmegaFloor) THEN omega ELSE @]
              IN  add_residue_from_geo_aa_linker2_1(structure, geo)
  ELSE Raise("ValueError", structure)

\* add_residue_aa_linker2_3, lines 1809-1834
add_residue_aa_linker2_3(structure, residue, phi, psi_im1, omega) ==
  IF isinstance(residue, "Geo")
    THEN add_residue_from_geo_aa_linker2_3(structure, residue.geo)
  ELSE IF isinstance(residue, "str")
    THEN LET made == geometry(residue.s) IN
         IF made.exc # NoExc THEN Raise(made.exc, structure)
         ELSE LET geo == [made.val EXCEPT
                            !.phi = phi,
                            !.psi_im1 = psi_im1,
                            !.omega = IF omega > Deg(OmegaFloor) THEN omega ELSE @]
              IN  add_residue_from_geo_aa_linker2_3(structure, geo)
  ELSE Raise("ValueError", structure)

\* add_residue_linker2_1_aa, lines 1836-1861
add_residue_linker2_1_aa(structure, residue, phi, psi_im1, omega) ==
  IF isinstance(residue, "Geo")
    THEN add_residue_from_geo_linker2_1_aa(structure, residue.geo)
  ELSE IF isinstance(residue, "str")
    THEN LET made == geometry(residue.s) IN
         IF made.exc # NoExc THEN Raise(made.exc, structure)
         ELSE LET geo == [made.val EXCEPT
                            !.phi = phi,
                            !.psi_im1 = psi_im1,
                            !.omega = IF omega > Deg(OmegaFloor) THEN omega ELSE @]
              IN  add_residue_from_geo_linker2_1_aa(structure, geo)
  ELSE Raise("ValueError", structure)

\* add_residue_linker2_3_aa, lines 1862-1887
add_residue_linker2_3_aa(structure, residue, phi, psi_im1, omega) ==
  IF isinstance(residue, "Geo")
    THEN add_residue_from_geo_linker2_3_aa(structure, residue.geo)
  ELSE IF isinstance(residue, "str")
    THEN LET made == geometry(residue.s) IN
         IF made.exc # NoExc THEN Raise(made.exc, structure)
         ELSE LET geo == [made.val EXCEPT
                            !.phi = phi,
                            !.psi_im1 = psi_im1,
                            !.omega = IF omega > Deg(OmegaFloor) THEN omega ELSE @]
              IN  add_residue_from_geo_linker2_3_aa(structure, geo)
  ELSE Raise("ValueError", structure)

\* The add_residue variant of a given name.
Apply(f, structure, residue, phi, psi_im1, omega) ==
  CASE f = "add_residue_ala_aa" ->
         add_residue_ala_aa(structure, residue, phi, psi_im1, omega)
    [] f = "add_residue_aa_ala" ->
         add_residue_aa_ala(structure, residue, phi, psi_im1, omega)
    [] f = "add_residue_alalinker" ->
         add_residue_alalinker(structure, residue, phi, psi_im1, omega)
    [] f = "add_residue_linker_ala" ->
         add_residue_linker_ala(structure, residue, phi, psi_im1, omega)
    [] f = "add_residue" ->
         add_residue(structure, residue, phi, psi_im1, omega)
    [] f = "add_residue_AA_AA" ->
         add_residue_AA_AA(structure, residue, phi, psi_im1, omega)
    [] f = "add_residue_aa_linker2_1" ->
         add_residue_aa_linker2_1(structure, residue, phi, psi_im1, omega)
    [] f = "add_residue_aa_linker2_3" ->
         add_residue_aa_linker2_3(structure, residue, phi, psi_im1, omega)
    [] f = "add_residue_linker2_1_aa" ->
         add_residue_linker2_1_aa(structure, residue, phi, psi_im1, omega)
    [] f = "add_residue_linker2_3_aa" ->
         add_residue_linker2_3_aa(structure, residue, phi, psi_im1, omega)

\* ------------------------------------------------------- the first monomer

\* What initialize_res* hands back: the exception, or the new Structure.
\* Chain("A") > Model(0) > Structure("X") are made after the residue.
\* A variant of the wrapping that gives the model a chain B as well;
\* C15_OneModelOneChain tells it from the original.
fresh_two_chains(res) ==
  LET cha == entity_add(Chain("A"), res)
      mod == entity_add(entity_add(Model(0), cha), Chain("B"))
  IN  entity_add(Structure("X"), mod)
fresh(res) ==
  LET cha == entity_add(Chain("A"), res)
      mod == entity_add(Model(0), cha)
  IN  entity_add(Structure("X"), mod)

initialize_res_natural(residue) ==
  LET made == IF isinstance(residue, "Geo")
                THEN [exc |-> NoExc, val |-> residue.geo]
              ELSE IF isinstance(residue, "str") THEN geometry(residue.s)
              ELSE [exc |-> "ValueError", val |-> NoGeo]
      geo == made.val
      segID == 1
      N == Atom("N", seeded(geo, <<"CA_N_length", "N_CA_C_angle">>),
                " N", "N", segID)
      CA == Atom("CA", seeded(geo, <<>>), " CA", "C", segID)
      C == Atom("C", seeded(geo, <<"CA_C_length">>), " C", "C", segID)
      O == Atom("O", placed(own(segID, "N"), own(segID, "CA"), own(segID, "C"),
                  geo, "C_O_length", "CA_C_O_angle", "N_CA_C_O_diangle"),
                " O", "O", segID)
      res == make_res_of_type_natural(segID, N, CA, C, O, geo)
  IN
  IF made.exc # NoExc THEN [exc |-> made.exc, val |-> Structure("X"), geo |-> NoGeo]
  ELSE IF geo.lacks \cap {"residue_name", "CA_N_length", "CA_C_length",
                          "N_CA_C_angle", "C_O_length", "CA_C_O_angle",
                          "N_CA_C_O_diangle"} # {}
    THEN [exc |-> "AttributeError", val |-> Structure("X"), geo |-> geo]
  ELSE IF res.exc # NoExc
    THEN [exc |-> res.exc, val |-> Structure("X"), geo |-> geo]
  ELSE [exc |-> NoExc, val |-> fresh(res.val), geo |-> geo]

initialize_res(residue) ==
  LET made == IF isinstance(residue, "Geo")
                THEN [exc |-> NoExc, val |-> residue.geo]
              ELSE IF isinstance(residue, "str") THEN geometry(residue.s)
              ELSE [exc |-> "ValueError", val |-> NoGeo]
      geo == made.val
      segID == 1
      N == Atom("N", seeded(geo, <<"N_CD1_length", "N_CD1_CG_angle">>),
                " N", "N", segID)
      CG == Atom("CG", seeded(geo, <<"CD1_CG_length">>), " CG", "C", segID)
      CD1 == Atom("CD1", seeded(geo, <<>>), " CD1", "C", segID)
      NB == Atom("NB", placed(own(segID, "N"), own(segID, "CD1"), own(segID, "CG"),
                   geo, "CG_NB_length", "CD1_CG_NB_angle", "N_CD1_CG_NB_diangle"),
                 " NB", "N", segID)
      CA == Atom("CA", placed(own(segID, "CD1"), own(segID, "CG"), own(segID, "NB"),
                   geo, "CA_NB_length", "CG_NB_CA_angle", "CD1_CG_NB_CA_diangle"),
                 " CA", "C", segID)
      C == Atom("C", placed(own(segID, "CG"), own(segID, "NB"), own(segID, "CA"),
                  geo, "CA_C_length", "NB_CA_C_angle", "CG_NB_CA_C_diangle"),
                " C", "C", segID)
      O == Atom("O", placed(own(segID, "NB"), own(segID, "CA"), own(segID, "C"),
                  geo, "C_O_length", "CA_C_O_angle", "NB_CA_C_O_diangle1"),
                " O", "O", segID)
      res == make_res_of_type_aa(segID, N, CD1, CG, NB, CA, C, O, geo)
  IN
  IF made.exc # NoExc THEN [exc |-> made.exc, val |-> Structure("X"), geo |-> NoGeo]
  ELSE IF geo.lacks \cap {"residue_name", "N_CD1_length", "CD1_CG_length",
                          "N_CD1_CG_angle", "N_CD1_CG_NB_diangle",
                          "CG_NB_length", "CG_NB_CA_angle",
                          "CG_NB_CA_C_diangle", "CA_NB_length", "CA_C_length",
                          "NB_CA_C_angle", "CD1_CG_NB_angle",
                          "CD1_CG_NB_CA_diangle", "C_O_length",
                          "CA_C_O_angle", "NB_CA_C_O_diangle1"} # {}
    THEN [exc |-> "AttributeError", val |-> Structure("X"), geo |-> geo]
  ELSE IF res.exc # NoExc
    THEN [exc |-> res.exc, val |-> Structure("X"), geo |-> geo]
  ELSE [exc |-> NoExc, val |-> fresh(res.val), geo |-> geo]

\* ------------------------------------------------------------- the cap

\* A variant of add_terminal_OXT that makes the atom and never adds it;
\* C4_CapAddsOneAtom tells it from the original.
add_terminal_OXT_noadd(structure, C_OXT_length) ==
  LET got == getReferenceResidue(structure) IN
  IF got.exc # NoExc THEN RaiseIn(got.exc, structure, NoGeo) ELSE
  LET resRef == got.val IN
  IF \E k \in {"N", "CA", "C", "O"} : ~has_id(resRef, k)
    THEN RaiseIn("KeyError", structure, NoGeo) ELSE
  Return("structure", structure, NoGeo)

\* add_terminal_OXT: the angle and the dihedral are measured on the last
\* residue's N, CA, C and O; the new atom goes into that residue.
add_terminal_OXT(structure, C_OXT_length) ==
  LET got == getReferenceResidue(structure) IN
  IF got.exc # NoExc THEN RaiseIn(got.exc, structure, NoGeo) ELSE
  LET resRef == got.val IN
  IF \E k \in {"N", "CA", "C", "O"} : ~has_id(resRef, k)
    THEN RaiseIn("KeyError", structure, NoGeo) ELSE
  LET OXT == Atom("OXT",
               [refs |-> <<ref(resRef, "N"), ref(resRef, "CA"), ref(resRef, "C")>>,
                geo |-> NoGeo.type,
                args |-> <<"C_OXT_length", "CA_C_OXT_angle", "N_CA_C_OXT_diangle">>,
                given |-> C_OXT_length],
               "OXT", "O", get_id(resRef))
      added == residue_add(resRef, OXT)
      m == entity_at(structure, 0)
      c == entity_at(structure.child_list[m], "A")
      last == Len(structure.child_list[m].child_list[c].child_list)
  IN
  IF added.exc # NoExc THEN RaiseIn(added.exc, structure, NoGeo) ELSE
  Return("structure",
    [structure EXCEPT !.child_list[m].child_list[c].child_list[last] = added.val],
    NoGeo)


\* def add_terminal_OXT(structure, C_OXT_length = 1.23): the length the
\* body sees.
C_OXT_length_of(len) == IF len.none THEN DefaultOXTLength ELSE len.val

\* A variant of OXT_parameters that always takes 180 off the dihedral;
\* C22_CapParameters tells it from the original.
OXT_parameters_unwrapped(C_OXT_length, CA_C_O_angle, N_CA_C_O_diangle) ==
  [L |-> C_OXT_length, ang |-> CA_C_O_angle, di |-> N_CA_C_O_diangle - Deg(180)]

\* Lines 1944-1953: the length, angle and dihedral add_terminal_OXT hands to
\* calculateCoordinates, from the CA-C-O angle and the N-CA-C-O dihedral
\* measured on the last residue.
OXT_parameters(C_OXT_length, CA_C_O_angle, N_CA_C_O_diangle) ==
  LET CA_C_OXT_angle == CA_C_O_angle
      N_CA_C_OXT_diangle ==
        IF N_CA_C_O_diangle < 0 THEN N_CA_C_O_diangle + Deg(180)
        ELSE N_CA_C_O_diangle - Deg(180)
  IN  [L |-> C_OXT_length, ang |-> CA_C_OXT_angle, di |-> N_CA_C_OXT_diangle]

\* What calc_angle and calc_dihedral measure on the last residue.
Measure(angle, dihedral) == [CA_C_O_angle |-> angle, N_CA_C_O_diangle |-> dihedral]
\* No OXT placement was computed.
NoOXT == [measured |-> Measure(0, 0), asked |-> OXT_parameters(0, 0, 0), none |-> TRUE]
\* ------------------------------------------------------ the chain makers

\* What a chain maker hands back: the exception, or the new Structure with
\* the bundles it built from and the numbers it gave, in the order of its
\* calls; the bundle of the last call it made that had one, and whether one
\* of its calls reached getReferenceResidue.
Failed(e, last, reached) ==
  [exc |-> e, struc |-> Structure("X"), geos |-> <<>>, ids |-> <<>>,
   geo |-> last, read |-> reached]
Done(model_structure, acc) ==
  [exc |-> NoExc, struc |-> model_structure, geos |-> acc.geos, ids |-> acc.ids,
   geo |-> acc.geo, read |-> acc.read]
Logged(acc, model_structure, out) ==
  [geos |-> Append(acc.geos, out.geo),
   ids |-> Append(acc.ids, next_segID(getReferenceResidue(model_structure).val)),
   geo |-> out.geo, read |-> acc.read \/ out.read]
First(made) == [geos |-> <<made.geo>>, ids |-> <<1>>, geo |-> made.geo, read |-> FALSE]

\* An optional list argument: None, or a list.
NoList == [none |-> TRUE, list |-> <<>>]
List(l) == [none |-> FALSE, list |-> l]

\* In the loops below, what a call returned is bound as the one element of
\* a set: it is a value from then on, computed once.

\* for i in range(1, len(AA_chain)): geo = geometry(AA_chain[i]);
\* add_residue(struc, geo).  i counts as in the source, from 0.
RECURSIVE extended_loop(_, _, _, _)
extended_loop(model_structure, AA_chain, i, acc) ==
  IF i >= Len(AA_chain) THEN Done(model_structure, acc) ELSE
  LET geo == geometry(AA_chain[i + 1]) IN
  IF geo.exc # NoExc THEN Failed(geo.exc, acc.geo, acc.read) ELSE
  CHOOSE result \in
    { IF out.exc # NoExc
        THEN Failed(out.exc, IF out.geo = NoGeo THEN acc.geo ELSE out.geo,
                    acc.read \/ out.read)
      ELSE extended_loop(out.struc, AA_chain, i + 1, Logged(acc, model_structure, out)) :
      out \in {add_residue(model_structure, GeoArg(geo.val),
                           Deg(DefaultPhi), Deg(DefaultPsi), Deg(DefaultOmega))} } : TRUE

make_extended_structure(AA_chain) ==
  IF Len(AA_chain) = 0 THEN Failed("IndexError", NoGeo, FALSE) ELSE
  LET geo == geometry(AA_chain[1]) IN
  IF geo.exc # NoExc THEN Failed(geo.exc, NoGeo, FALSE) ELSE
  CHOOSE result \in
    { IF made.exc # NoExc THEN Failed(made.exc, made.geo, FALSE)
      ELSE extended_loop(made.val, AA_chain, 1, First(made)) :
      made \in {initialize_res(GeoArg(geo.val))} } : TRUE

\* for i in range(1, len(AA_chain)):
\*   add_residue(struc, AA_chain[i], phi[i - 1], psi_im1[i - 1][, omega[i - 1]])
RECURSIVE structure_loop(_, _, _, _, _, _, _)
structure_loop(model_structure, AA_chain, phi, psi_im1, omega, i, acc) ==
  IF i >= Len(AA_chain) THEN Done(model_structure, acc) ELSE
  IF (i - 1) + 1 > Len(phi) \/ (i - 1) + 1 > Len(psi_im1)
     \/ (~omega.none /\ (i - 1) + 1 > Len(omega.list))
    THEN Failed("IndexError", acc.geo, acc.read) ELSE
  CHOOSE result \in
    { IF out.exc # NoExc
        THEN Failed(out.exc, IF out.geo = NoGeo THEN acc.geo ELSE out.geo,
                    acc.read \/ out.read)
      ELSE structure_loop(out.struc, AA_chain, phi, psi_im1, omega, i + 1, Logged(acc, model_structure, out)) :
      out \in {add_residue(model_structure, StrArg(AA_chain[i + 1]),
                           phi[(i - 1) + 1], psi_im1[(i - 1) + 1],
                           IF omega.none THEN Deg(DefaultOmega)
                                         ELSE omega.list[(i - 1) + 1])} } : TRUE

\* if omega is None or not len(omega): the calls leave omega out.
make_structure(AA_chain, phi, psi_im1, omega) ==
  IF Len(AA_chain) = 0 THEN Failed("IndexError", NoGeo, FALSE) ELSE
  LET geo == geometry(AA_chain[1]) IN
  IF geo.exc # NoExc THEN Failed(geo.exc, NoGeo, FALSE) ELSE
  CHOOSE result \in
    { IF made.exc # NoExc THEN Failed(made.exc, made.geo, FALSE)
      ELSE structure_loop(made.val, AA_chain, phi, psi_im1,
             IF omega.none \/ Len(omega.list) = 0 THEN NoList ELSE omega,
             1, First(made)) :
      made \in {initialize_res(GeoArg(geo.val))} } : TRUE

\* for i in range(1, len(geos)): add_residue(model_structure, geos[i])
RECURSIVE from_geos_loop(_, _, _, _)
from_geos_loop(model_structure, geos_, i, acc) ==
  IF i >= Len(geos_) THEN Done(model_structure, acc) ELSE
  CHOOSE result \in
    { IF out.exc # NoExc
        THEN Failed(out.exc, IF out.geo = NoGeo THEN acc.geo ELSE out.geo,
                    acc.read \/ out.read)
      ELSE from_geos_loop(out.struc, geos_, i + 1, Logged(acc, model_structure, out)) :
      out \in {add_residue(model_structure, geos_[i + 1],
                           Deg(DefaultPhi), Deg(DefaultPsi), Deg(DefaultOmega))} } : TRUE

\* geos is the argument; geos_ here, geos being a variable of the module.
make_structure_from_geos(geos_) ==
  IF Len(geos_) = 0 THEN Failed("IndexError", NoGeo, FALSE) ELSE
  CHOOSE result \in
    { IF made.exc # NoExc THEN Failed(made.exc, made.geo, FALSE)
      ELSE from_geos_loop(made.val, geos_, 1, First(made)) :
      made \in {initialize_res(geos_[1])} } : TRUE

\* ---------------------------------------------- exact arithmetic (numpy)

\* Floats are modelled by exact fractions n/d, d > 0, in lowest terms.  The
\* model evaluates a call only where every value it computes is a fraction
\* and every rotation is by a multiple of 90 degrees; any other call is
\* "inexact" and left undecided.  A float carries a rounding error where
\* the fraction is the product of roots that are no fractions, a cosine
\* other than 1 and -1, or a quotient with a denominator that is no power of
\* two: a radicand that is zero as a fraction is then a float of either
\* sign, and the call is left undecided as well.
Abs(i) == IF i < 0 THEN -i ELSE i
Sign(i) == IF i < 0 THEN -1 ELSE IF i > 0 THEN 1 ELSE 0

RECURSIVE GCD(_, _)
GCD(a, b) == IF b = 0 THEN a ELSE GCD(b, a % b)

Q(n, d) ==
  LET g == GCD(Abs(n), Abs(d)) IN
  IF n = 0 THEN [n |-> 0, d |-> 1]
  ELSE [n |-> Sign(d) * (n \div g), d |-> Abs(d) \div g]
QInt(i) == [n |-> i, d |-> 1]
QAdd(x, y) == Q(x.n * y.d + y.n * x.d, x.d * y.d)
QNeg(x) == [n |-> -x.n, d |-> x.d]
QSub(x, y) == QAdd(x, QNeg(y))
QMul(x, y) == Q(x.n * y.n, x.d * y.d)
QDiv(x, y) == Q(x.n * y.d, x.d * y.n)
QScale(i, x) == Q(i * x.n, x.d)

RECURSIVE Root(_, _, _)
Root(n, lo, hi) ==
  IF lo = hi THEN lo
  ELSE LET mid == (lo + hi + 1) \div 2 IN
       IF mid * mid <= n THEN Root(n, mid, hi) ELSE Root(n, lo, mid - 1)
ISqrt(n) == Root(n, 0, IF n < 40000 THEN n ELSE 40000)
IsSquare(n) == n >= 0 /\ ISqrt(n) * ISqrt(n) = n
RECURSIVE IsPowerOfTwo(_)
IsPowerOfTwo(n) == n = 1 \/ (n > 1 /\ n % 2 = 0 /\ IsPowerOfTwo(n \div 2))

\* math.sqrt: a ValueError below zero, else the root where it is a fraction
sqrt(x) ==
  IF x.n < 0 THEN [kind |-> "ValueError", val |-> QInt(0)]
  ELSE IF IsSquare(x.n) /\ IsSquare(x.d)
    THEN [kind |-> "ok", val |-> Q(ISqrt(x.n), ISqrt(x.d))]
  ELSE [kind |-> "inexact", val |-> QInt(0)]

\* Bio.PDB.vectors.Vector on integer and on fraction coordinates
Sub(v, w) == <<v[1] - w[1], v[2] - w[2], v[3] - w[3]>>
Dot(v, w) == v[1] * w[1] + v[2] * w[2] + v[3] * w[3]
Cross(v, w) ==
  <<v[2] * w[3] - v[3] * w[2], v[3] * w[1] - v[1] * w[3], v[1] * w[2] - v[2] * w[1]>>
Norm2(v) == Dot(v, v)
Zero3 == <<0, 0, 0>>
QVec(v) == <<QInt(v[1]), QInt(v[2]), QInt(v[3])>>
QVAdd(v, w) == <<QAdd(v[1], w[1]), QAdd(v[2], w[2]), QAdd(v[3], w[3])>>
QVSub(v, w) == <<QSub(v[1], w[1]), QSub(v[2], w[2]), QSub(v[3], w[3])>>
QVScale(x, v) == <<QMul(x, v[1]), QMul(x, v[2]), QMul(x, v[3])>>
QDot(v, w) == QAdd(QAdd(QMul(v[1], w[1]), QMul(v[2], w[2])), QMul(v[3], w[3]))
QCross(v, w) ==
  <<QSub(QMul(v[2], w[3]), QMul(v[3], w[2])),
    QSub(QMul(v[3], w[1]), QMul(v[1], w[3])),
    QSub(QMul(v[1], w[2]), QMul(v[2], w[1]))>>
\* a fraction vector scaled by its common denominator: same direction
LCM(a, b) == (a \div GCD(a, b)) * b
Cleared(v) ==
  LET m == LCM(v[1].d, LCM(v[2].d, v[3].d)) IN
  <<v[1].n * (m \div v[1].d), v[2].n * (m \div v[2].d), v[3].n * (m \div v[3].d)>>

\* Vector.angle between two directions, as one of 0, 90, 180 degrees or
\* "other".  With a zero vector the cosine is nan, which min(c, 1) keeps and
\* max(-1, c) turns into -1: the angle is 180.
Angle(v, w) ==
  IF v = Zero3 \/ w = Zero3 THEN 180
  ELSE IF Dot(v, w) = 0 THEN 90
  ELSE IF Cross(v, w) = Zero3 THEN (IF Dot(v, w) > 0 THEN 0 ELSE 180)
  ELSE 1

\* calc_dihedral(v1, v2, v3, v4) in degrees: 0, 90, -90, 180, -180, or 1 for
\* any other angle.  The sign is flipped when cb.angle(w) > 0.001.
dihedral_of(ab, cb, db) ==
  LET u == Cross(ab, cb)
      v == Cross(db, cb)
      w == Cross(u, v)
      angle == Angle(u, v)
  IN  IF angle = 1 THEN 1
      ELSE IF Angle(cb, w) # 0 THEN -angle ELSE angle
calc_dihedral(v1, v2, v3, v4) == dihedral_of(Sub(v1, v2), Sub(v3, v2), Sub(v4, v3))

\* calc_angle(v1, v2, v3): the angle at v2, kept as its cosine
\* dot / sqrt(n1 * n2)
calc_angle(v1, v2, v3) ==
  [dot |-> Dot(Sub(v1, v2), Sub(v3, v2)), n1 |-> Norm2(Sub(v1, v2)),
   n2 |-> Norm2(Sub(v3, v2))]
\* a length, kept as its square
dist(v1, v2) == [sq |-> Norm2(Sub(v1, v2))]

\* rotaxis(theta, vector) applied by left_multiply to p: a right-handed turn
\* about the normalized vector, theta a multiple of 90 degrees.
Turned(theta, vector, p) ==
  LET t == theta % 360
      c == IF t = 0 THEN 1 ELSE IF t = 180 THEN -1 ELSE 0
      s == IF t = 90 THEN 1 ELSE IF t = 270 THEN -1 ELSE 0
      n2 == Norm2(vector)
      k == QVec(vector)
      along == QVScale(QDiv(QDot(k, p), QInt(n2)), k)
      across == QVScale(Q(s, ISqrt(n2)), QCross(k, p))
  IN  IF n2 = 0 THEN [kind |-> "nan", at |-> p]
      ELSE IF s # 0 /\ ~IsSquare(n2) THEN [kind |-> "inexact", at |-> p]
      ELSE [kind |-> "point",
            at |-> QVAdd(QVAdd(QVScale(QInt(c), p), QVScale(QInt(1 - c), along)),
                         IF s = 0 THEN QVec(Zero3) ELSE across)]

\* ------------------------------------------------- calculateCoordinates

NaN == [kind |-> "nan", at |-> QVec(Zero3)]
Inexact == [kind |-> "inexact", at |-> QVec(Zero3)]
Raised(e) == [kind |-> e, at |-> QVec(Zero3)]
\* no call made yet
NotPlaced == [kind |-> "none", at |-> QVec(Zero3)]

\* lines 49-136.  A division by a zero numpy float gives nan or inf and no
\* exception; what is computed from it stays nan.
calculateCoordinates(refA, refB, refC, L, ang, di) ==
  LET AV == refA
      BV == refB
      CV == refC
      CA == Sub(AV, CV)
      CB == Sub(BV, CV)
      AX == CA[1]
      AY == CA[2]
      AZ == CA[3]
      BX == CB[1]
      BY_ == CB[2]    \* BY
      BZ == CB[3]
      A == (AY * BZ) - (AZ * BY_)
      B == (AZ * BX) - (AX * BZ)
      G == (AX * BY_) - (AY * BX)
      LL == QInt(L.sq)
      sq == B * BZ - BY_ * G
      denom == (B * B) * (BX * BX + BZ * BZ)
                 + (A * A) * (BY_ * BY_ + BZ * BZ)
                 - (2 * A * BX * BZ * G)
                 + (BX * BX + BY_ * BY_) * (G * G)
                 - (2 * B * BY_) * (A * BX + BZ * G)
      flat == (B = 0 \/ BZ = 0) /\ (BY_ = 0 \/ G = 0)
      \* line 75 takes math.sqrt(BX*BX + BY*BY + BZ*BZ), the float L and
      \* math.cos(ang) one by one: their product is the float of the
      \* fraction only where each of them is one
      rounded ==
        \/ ~IsSquare(BX * BX + BY_ * BY_ + BZ * BZ)
        \/ ~IsSquare(L.sq)
        \/ /\ ang.n1 * ang.n2 # 0
           /\ ~(/\ ang.dot * ang.dot = ang.n1 * ang.n2
                /\ IsSquare(ang.n1) /\ IsSquare(ang.n2))
      \* lines 125-136: D, the dihedral measured on it, the turn about CB
      Rotated(xyz) ==
        Only({
          Only({
            IF di = 1 \/ temp = 1 THEN Inexact
            ELSE Only({
              IF rot.kind # "point" THEN rot
              ELSE [kind |-> "point", at |-> QVAdd(rot.at, QVec(BV))]
              : rot \in {Turned(di - temp, Sub(CV, BV), QVSub(D, QVec(BV)))} })
            : D \in {QVAdd(XYZ, QVec(CV))},
              temp \in {dihedral_of(Sub(AV, BV), Sub(CV, BV), Cleared(XYZ))} })
          : XYZ \in {xyz} })
      \* lines 105-110: the branch taken when (B == 0 or BZ == 0) and
      \* (BY == 0 or G == 0)
      Degenerate(X) ==
        Only({
          IF G # 0 /\ radicand.n = 0 /\ (rounded \/ ~IsPowerOfTwo(X.d)) THEN Inexact
          ELSE Only({
          IF const1.kind # "ok" THEN Raised(const1.kind)
          ELSE IF B * B + G * G = 0 \/ G * (B * B + G * G) = 0 THEN NaN
          ELSE Rotated(
            <<X,
              QDiv(QAdd(QScale(-A * B, X), const1.val), QInt(B * B + G * G)),
              QNeg(QDiv(QAdd(QScale(A * G * G, X), QScale(B, const1.val)),
                        QInt(G * (B * B + G * G))))>>)
          : const1 \in {sqrt(QScale(G * G, radicand))} })
          : radicand \in {QAdd(QNeg(QScale(A * A, QMul(X, X))),
                               QScale(B * B + G * G, QSub(LL, QMul(X, X))))} })
      \* lines 111-123: the general branch
      General(F, const, X) ==
        IF sq * denom = 0 THEN NaN
        ELSE Rotated(
          <<X,
            QDiv(
              QSub(QAdd(QScale(A * A * BY_ * sq, F),
                        QScale(G, QAdd(QNeg(QScale(sq * sq, F)),
                                       QScale(BX, const.val)))),
                   QScale(A, QAdd(QSub(QScale(B * B * BX * BZ, F),
                                       QScale(B * BX * BY_ * G, F)),
                                  QScale(BZ, const.val)))),
              QInt(sq * denom)),
            QDiv(
              QAdd(QSub(QAdd(QAdd(QScale(A * A * BZ * sq, F),
                                  QScale(B * sq * sq, F)),
                             QScale(A * BX * G * (-B * BZ + BY_ * G), F)),
                        QScale(B * BX, const.val)),
                   QScale(A * BY_, const.val)),
              QInt(sq * denom))>>)
      \* lines 78-103: const and X
      Solved(F) ==
        Only({
          IF sq # 0 /\ radicand.n = 0 /\ rounded THEN Inexact
          ELSE Only({
          IF const.kind # "ok" THEN Raised(const.kind)
          ELSE IF denom = 0 THEN NaN
          ELSE Only({
            IF flat THEN Degenerate(X) ELSE General(F, const, X)
            : X \in {QDiv(
                       QAdd(QAdd(QSub(QScale(B * B * BX, F), QScale(A * B * BY_, F)),
                                 QScale(G * (-A * BZ + BX * G), F)),
                            const.val),
                       QInt(denom))} })
          : const \in {sqrt(QScale(sq * sq, radicand))} })
          : radicand \in {QAdd(QNeg(QScale(A * A + B * B + G * G, QMul(F, F))),
                              QScale(denom, LL))} })
  IN
  \* line 75: F = sqrt(BX*BX + BY*BY + BZ*BZ) * L * cos(ang)
  Only({
    IF scale.kind # "ok" THEN Raised(scale.kind)
    ELSE Only({
      Solved(F)
      : F \in {IF ang.n1 * ang.n2 = 0 THEN QNeg(scale.val)
               ELSE QScale(ang.dot, scale.val)} })
    : scale \in {IF ang.n1 * ang.n2 = 0
                   THEN sqrt(QInt((BX * BX + BY_ * BY_ + BZ * BZ) * L.sq))
                   ELSE sqrt(Q((BX * BX + BY_ * BY_ + BZ * BZ) * L.sq, ang.n1 * ang.n2))} })
\* ------------------------------------------------------- concurrent calls

\* One append call running in a thread of its own: not begun; past
\* getReferenceResidue and its builder with res in hand, before
\* structure[0]["A"].add(res); returned; or left by an exception.  saw is the
\* sequence number of the reference residue it read.
Threads == {1, 2}
Waiting ==
  [pc |-> "waiting", f |-> "none", saw |-> 0, res |-> None, value |-> "none",
   geo |-> NoGeo, exc |-> NoExc]
NoThreads == [t \in Threads |-> Waiting]

\* ------------------------------------------------------------ the inputs

\* phi, psi_im1 and omega as a caller passes them, in half degrees: the
\* defaults, the two values next to the omega threshold (-360.5 and -360),
\* and a helix with an omega of its own.
Angles ==
  { <<Deg(DefaultPhi), Deg(DefaultPsi), Deg(DefaultOmega)>>,
    <<Deg(DefaultPhi), Deg(DefaultPsi), Deg(OmegaFloor) + 1>>,
    <<Deg(DefaultPhi), Deg(DefaultPsi), Deg(OmegaFloor) + 2>>,
    <<Deg(-60), Deg(-40), Deg(170)>> }
Defaults == <<Deg(DefaultPhi), Deg(DefaultPsi), Deg(DefaultOmega)>>
Helix == <<Deg(-60), Deg(-40), Deg(170)>>

\* The residue arguments tried.  initialize_res* is given a bundle of every
\* class a dispatcher names and of one no dispatcher names; the appends are
\* given one bundle per dispatcher and one no dispatcher names.  Both are
\* given a bundle lacking the entry every function reads first, a bundle
\* lacking an entry several functions read after they looked up the
\* reference atoms, a catalog kind, a kind the catalog lacks, and a value
\* that is neither bundle nor string.
Others ==
  {GeoArg(Geo("AAGeo", {"residue_name"})), GeoArg(Geo("AAGeo", {"C_O_length"})),
   StrArg("AAGeo"), StrArg("?"), IntArg}
Residues ==
  {GeoArg(Geo(t, {})) : t \in GeoTypes \ {"LfoGeo", "LfiGeo"}} \cup Others
Appendables ==
  {GeoArg(Geo(t, {})) :
     t \in {"AlaGeo", "LinkerGeo", "AAGeo", "LfsGeo", "LssGeo", "LtsGeo"}}
    \cup Others

Arg(r, a) ==
  [residue |-> r, phi |-> a[1], psi_im1 |-> a[2], omega |-> a[3],
   C_OXT_length |-> NoLength]

Args ==
  {Arg(r, Defaults) : r \in Appendables}
    \cup {Arg(StrArg("AAGeo"), a) : a \in Angles}
    \cup {Arg(GeoArg(Geo("AAGeo", {})), Helix)}

NoArg(len) ==
  [residue |-> NoResidue, phi |-> 0, psi_im1 |-> 0, omega |-> 0, C_OXT_length |-> len]

\* What the chain makers are given: kinds (or bundles) of the classes
\* initialize_res and add_residue build from, up to MaxMonomers of them, no
\* element at all, a kind the catalog lacks, and a class they do not build
\* from.
Kinds == {"AAGeo", "HfsGeo"}
Chains ==
  UNION {[1..n -> Kinds] : n \in 0..MaxMonomers}
    \cup {<<"AAGeo", "?">>, <<"AlaGeo">>, <<"AAGeo", "AlaGeo">>}
\* One angle for each monomer after the first, each its own value; no phi
\* at all; omega left out, empty, or listed.
PhiList == [i \in 1..(MaxMonomers - 1) |-> Deg(-60 - i)]
PsiList == [i \in 1..(MaxMonomers - 1) |-> Deg(-40 - i)]
OmegaList == [i \in 1..(MaxMonomers - 1) |-> Deg(170 + i)]
AngleLists ==
  {<<PhiList, PsiList, o>> : o \in {NoList, List(<<>>), List(OmegaList)}}
    \cup {<<<<>>, PsiList, NoList>>}
Lists(elems, l) == [elems |-> elems, phi |-> l[1], psi_im1 |-> l[2], omega |-> l[3]]
NoLists == Lists(<<>>, <<<<>>, <<>>, NoList>>)

\* Assemblies made by hand, without initialize_res: no model, no chain A,
\* chain A without a residue.
Empties ==
  { Structure("X"),
    entity_add(Structure("X"), Model(0)),
    entity_add(Structure("X"), entity_add(Model(0), Chain("A"))) }

\* ------------------------------------------------------------ the actions

Init ==
  /\ struc \in Empties
  /\ op = "none"
  /\ arg = NoArg(NoLength)
  /\ ret = "none"
  /\ exc = NoExc
  /\ bundle = NoGeo
  /\ read = FALSE
  /\ appended = 0
  /\ built = <<>>
  /\ given = NoLists
  /\ geos = <<>>
  /\ oxt = NoOXT
  /\ threads = NoThreads
  /\ pA = Zero3 /\ pB = Zero3 /\ pC = Zero3 /\ pD = Zero3
  /\ placedAt = NotPlaced

Initializers == {"initialize_res_natural", "initialize_res"}
Makers == {"make_extended_structure", "make_structure", "make_structure_from_geos"}
Appends ==
  {"add_residue_ala_aa", "add_residue_aa_ala", "add_residue_alalinker",
   "add_residue_linker_ala", "add_residue", "add_residue_AA_AA",
   "add_residue_aa_linker2_1", "add_residue_aa_linker2_3",
   "add_residue_linker2_1_aa", "add_residue_linker2_3_aa"}

\* One call on the assembly: what it left and what it handed back.
Outcome(f, a, out) ==
  /\ struc' = out.struc
  /\ op' = f
  /\ arg' = a
  /\ ret' = out.ret
  /\ exc' = out.exc
  /\ bundle' = out.geo
  /\ read' = out.read
  /\ appended' = IF out.exc # NoExc THEN appended
                  ELSE IF f \in Appends THEN appended + 1
                  ELSE IF f \in Initializers THEN 0
                  ELSE appended
  /\ built' = IF out.exc # NoExc THEN built
               ELSE IF f \in Appends
                 THEN Append(built, next_segID(getReferenceResidue(struc).val))
               ELSE IF f \in Initializers THEN <<1>>
               ELSE built
  /\ given' = NoLists
  /\ geos' = <<>>
  /\ UNCHANGED nerfVars
  /\ UNCHANGED threads

\* A call that is not add_terminal_OXT measures nothing for an OXT.
Call(f, a, out) == Outcome(f, a, out) /\ oxt' = NoOXT

\* A new assembly replaces the one in hand when initialize returns one.
Built(f, a, out) ==
  Call(f, a,
    [exc |-> out.exc, struc |-> IF out.exc = NoExc THEN out.val ELSE struc,
     ret |-> IF out.exc = NoExc THEN "struc" ELSE "none",
     geo |-> out.geo, read |-> FALSE])

\* A call that raised ends the run, as it ends make_structure and its
\* siblings, which catch nothing: every action asks for exc = NoExc.
InitializeResNatural ==
  /\ exc = NoExc
  /\ Monomers(struc) = <<>>
  /\ \E r \in Residues :
       Built("initialize_res_natural", [NoArg(NoLength) EXCEPT !.residue = r],
             initialize_res_natural(r))

InitializeRes ==
  /\ exc = NoExc
  /\ Monomers(struc) = <<>>
  /\ \E r \in Residues :
       Built("initialize_res", [NoArg(NoLength) EXCEPT !.residue = r],
             initialize_res(r))

\* C_OXT_length: left out.
OXTLengths == {NoLength}
\* The coordinates of an assembly are kept as the calls that made them, so
\* what add_terminal_OXT measures on the last residue is an input: an angle
\* and a dihedral in half degrees, the dihedral within [-180, 180].
Measures == {Measure(Deg(120), Deg(-90))}

\* add_terminal_OXT with one of the lengths, on a last residue measuring one
\* of the measures.  The parameters are computed once the four atoms are
\* found, before calculateCoordinates and resRef.add.
Cap(lengths, measures) ==
  /\ exc = NoExc
  /\ \E len \in lengths, m \in measures :
     \E out \in {add_terminal_OXT(struc, C_OXT_length_of(len))} :
       /\ Outcome("add_terminal_OXT", NoArg(len), out)
       /\ oxt' = IF out.exc \in {NoExc, "PDBConstructionException"}
                   THEN [measured |-> m,
                         asked |-> OXT_parameters(C_OXT_length_of(len),
                                     m.CA_C_O_angle, m.N_CA_C_O_diangle),
                         none |-> FALSE]
                   ELSE NoOXT

AddTerminalOXT == Cap(OXTLengths, Measures)
AddResidueAlaAa ==
  /\ exc = NoExc
  /\ Len(Monomers(struc)) < MaxMonomers
  /\ \E a \in Args :
       Call("add_residue_ala_aa", a, add_residue_ala_aa(struc, a.residue, a.phi,
                    a.psi_im1, a.omega))

AddResidueAaAla ==
  /\ exc = NoExc
  /\ Len(Monomers(struc)) < MaxMonomers
  /\ \E a \in Args :
       Call("add_residue_aa_ala", a, add_residue_aa_ala(struc, a.residue, a.phi,
                    a.psi_im1, a.omega))

AddResidueAlalinker ==
  /\ exc = NoExc
  /\ Len(Monomers(struc)) < MaxMonomers
  /\ \E a \in Args :
       Call("add_residue_alalinker", a, add_residue_alalinker(struc, a.residue, a.phi,
                    a.psi_im1, a.omega))

AddResidueLinkerAla ==
  /\ exc = NoExc
  /\ Len(Monomers(struc)) < MaxMonomers
  /\ \E a \in Args :
       Call("add_residue_linker_ala", a, add_residue_linker_ala(struc, a.residue, a.phi,
                    a.psi_im1, a.omega))

AddResidue ==
  /\ exc = NoExc
  /\ Len(Monomers(struc)) < MaxMonomers
  /\ \E a \in Args :
       Call("add_residue", a, add_residue(struc, a.residue, a.phi,
                    a.psi_im1, a.omega))

AddResidueAAAA ==
  /\ exc = NoExc
  /\ Len(Monomers(struc)) < MaxMonomers
  /\ \E a \in Args :
       Call("add_residue_AA_AA", a, add_residue_AA_AA(struc, a.residue, a.phi,
                    a.psi_im1, a.omega))

AddResidueAaLinker21 ==
  /\ exc = NoExc
  /\ Len(Monomers(struc)) < MaxMonomers
  /\ \E a \in Args :
       Call("add_residue_aa_linker2_1", a, add_residue_aa_linker2_1(struc, a.residue, a.phi,
                    a.psi_im1, a.omega))

AddResidueAaLinker23 ==
  /\ exc = NoExc
  /\ Len(Monomers(struc)) < MaxMonomers
  /\ \E a \in Args :
       Call("add_residue_aa_linker2_3", a, add_residue_aa_linker2_3(struc, a.residue, a.phi,
                    a.psi_im1, a.omega))

AddResidueLinker21Aa ==
  /\ exc = NoExc
  /\ Len(Monomers(struc)) < MaxMonomers
  /\ \E a \in Args :
       Call("add_residue_linker2_1_aa", a, add_residue_linker2_1_aa(struc, a.residue, a.phi,
                    a.psi_im1, a.omega))

AddResidueLinker23Aa ==
  /\ exc = NoExc
  /\ Len(Monomers(struc)) < MaxMonomers
  /\ \E a \in Args :
       Call("add_residue_linker2_3_aa", a, add_residue_linker2_3_aa(struc, a.residue, a.phi,
                    a.psi_im1, a.omega))

\* A chain maker takes no assembly: it returns a new one, which replaces
\* the one in hand.  It leaves the bundle of the last call it made, and has
\* reached getReferenceResidue when one of its add_residue calls has.
Made(f, lists, out) ==
  /\ struc' = IF out.exc = NoExc THEN out.struc ELSE struc
  /\ op' = f
  /\ arg' = NoArg(NoLength)
  /\ ret' = IF out.exc = NoExc THEN "struc" ELSE "none"
  /\ exc' = out.exc
  /\ bundle' = out.geo
  /\ read' = out.read
  /\ appended' = IF out.exc = NoExc THEN Len(out.ids) - 1 ELSE appended
  /\ built' = IF out.exc = NoExc THEN out.ids ELSE built
  /\ given' = lists
  /\ geos' = out.geos
  /\ oxt' = NoOXT
  /\ UNCHANGED nerfVars
  /\ UNCHANGED threads

MakeExtendedStructure ==
  /\ exc = NoExc
  /\ Monomers(struc) = <<>>
  /\ \E AA_chain \in Chains :
       Made("make_extended_structure", Lists(AA_chain, <<<<>>, <<>>, NoList>>),
            make_extended_structure(AA_chain))

MakeStructure ==
  /\ exc = NoExc
  /\ Monomers(struc) = <<>>
  /\ \E AA_chain \in Chains, l \in AngleLists :
       Made("make_structure", Lists(AA_chain, l),
            make_structure(AA_chain, l[1], l[2], l[3]))

\* The bundles handed over are those the catalog makes for the kinds.
MakeStructureFromGeos ==
  /\ exc = NoExc
  /\ Monomers(struc) = <<>>
  /\ \E AA_chain \in Chains \ {<<"AAGeo", "?">>} :
       LET bundles == [i \in 1..Len(AA_chain) |-> GeoArg(Geo(AA_chain[i], {}))]
       IN  Made("make_structure_from_geos", Lists(bundles, <<<<>>, <<>>, NoList>>),
                make_structure_from_geos(bundles))

\* ------------------------------------------------------------- SpecNeRF

\* Coordinates of the reference points, relative to refC.
Box == (-MaxCoord)..MaxCoord
Points == {<<x, y, z>> : x \in Box, y \in Box, z \in Box}
\* Where refC sits, and where the target sits relative to it; a target on
\* refC itself is a bond of length 0.
Centers == {<<0, 0, 0>>, <<1, -1, 0>>}
Targets ==
  {<<1, 0, 0>>, <<0, 1, 0>>, <<0, 0, 1>>, <<-1, 0, 0>>, <<0, -1, 0>>,
   <<0, 0, -1>>, <<1, 1, 0>>, <<0, 1, -1>>, <<0, 0, 0>>}
Plus(v, w) == <<v[1] + w[1], v[2] + w[2], v[3] + w[3]>>

Idle ==
  /\ struc = Structure("X")
  /\ op = "none"
  /\ arg = NoArg(NoLength)
  /\ ret = "none"
  /\ exc = NoExc
  /\ bundle = NoGeo
  /\ read = FALSE
  /\ appended = 0
  /\ built = <<>>
  /\ given = NoLists
  /\ geos = <<>>
  /\ oxt = NoOXT
  /\ threads = NoThreads

\* The target and refC are drawn first, refA and refB by the call.
InitNeRF ==
  /\ Idle
  /\ pC \in Centers
  /\ \E d \in Targets : pD = Plus(pC, d)
  /\ pA = pC /\ pB = pC
  /\ placedAt = NotPlaced

\* The round trip: measure D against A, B, C and place a point from the
\* three measurements.
Place ==
  /\ placedAt = NotPlaced
  /\ \E a \in Points, b \in Points :
       LET refA == Plus(pC, a)
           refB == Plus(pC, b)
       IN  /\ pA' = refA
           /\ pB' = refB
           /\ placedAt' = calculateCoordinates(refA, refB, pC, dist(pC, pD),
                            calc_angle(refB, pC, pD), calc_dihedral(refA, refB, pC, pD))
  /\ UNCHANGED <<pC, pD>>
  /\ UNCHANGED asmVars

NextNeRF == Place

SpecNeRF == InitNeRF /\ [][NextNeRF]_vars

\* The reference triple lies on one line.
Collinear == Cross(Sub(pA, pC), Sub(pB, pC)) = Zero3
\* The call was evaluated, and what it returned is the target.
Evaluated == placedAt.kind \notin {"none", "inexact"}
RoundTrips == placedAt.kind = "point" /\ placedAt.at = QVec(pD)


\* What the call was asked for and what it gave, measured again.
AskedLength == dist(pC, pD)
AskedDihedral == calc_dihedral(pA, pB, pC, pD)
Offset == QVSub(placedAt.at, QVec(pC))
GotLength == QDot(Offset, Offset)
GotDihedral == dihedral_of(Sub(pA, pB), Sub(pC, pB), Cleared(Offset))

\* ------------------------------------------------------------- SpecCap

\* add_terminal_OXT over many lengths and measurements, on an assembly of
\* one monomer as initialize_res_natural leaves it.
Seeds == {GeoArg(Geo(t, {})) : t \in {"AlaGeo", "Ala_odd_Geo"}}
AnyLengths == {NoLength, Length(DefaultOXTLength), Length(150)}
AnyMeasures ==
  {Measure(a, d) :
     a \in {Deg(120), Deg(121)},
     d \in {Deg(15 * k) : k \in -12..12} \cup {Deg(-180) + 1, -1, 1, Deg(180) - 1}}

InitCap ==
  /\ \E r \in Seeds :
     \E out \in {initialize_res_natural(r)} :
       /\ struc = out.val
       /\ arg = [NoArg(NoLength) EXCEPT !.residue = r]
       /\ bundle = out.geo
  /\ op = "initialize_res_natural"
  /\ ret = "struc"
  /\ exc = NoExc
  /\ read = FALSE
  /\ appended = 0
  /\ built = <<1>>
  /\ given = NoLists
  /\ geos = <<>>
  /\ oxt = NoOXT
  /\ threads = NoThreads
  /\ pA = Zero3 /\ pB = Zero3 /\ pC = Zero3 /\ pD = Zero3
  /\ placedAt = NotPlaced

CapAny == Cap(AnyLengths, AnyMeasures)

SpecCap == InitCap /\ [][CapAny]_vars

\* ------------------------------------------------------------ SpecRace

\* Two threads, one append call each, on one assembly of one monomer.  A
\* call is everything up to structure[0]["A"].add(res), which reads the
\* assembly, and then the steps of the add, which write it.
RaceCalls == {"add_residue", "add_residue_AA_AA"}
RaceArgs ==
  {Arg(GeoArg(Geo("AAGeo", {})), Defaults), Arg(StrArg("AAGeo"), Helix),
   Arg(IntArg, Defaults)}

InitRace ==
  /\ \E k \in Kinds :
     \E r \in {GeoArg(Geo(k, {}))} :
     \E out \in {initialize_res(r)} :
           /\ struc = out.val
           /\ arg = [NoArg(NoLength) EXCEPT !.residue = r]
           /\ bundle = out.geo
  /\ op = "initialize_res"
  /\ ret = "struc"
  /\ exc = NoExc
  /\ read = FALSE
  /\ appended = 0
  /\ built = <<1>>
  /\ given = NoLists
  /\ geos = <<>>
  /\ oxt = NoOXT
  /\ threads = NoThreads
  /\ pA = Zero3 /\ pB = Zero3 /\ pC = Zero3 /\ pD = Zero3
  /\ placedAt = NotPlaced

\* The call of thread t up to the add: the variant run on the assembly as it
\* stands gives the residue it would add.
Begin(t) ==
  /\ threads[t].pc = "waiting"
  /\ \E f \in RaceCalls, a \in RaceArgs :
     \E out \in {IF f = "add_residue"
                   THEN add_residue(struc, a.residue, a.phi, a.psi_im1, a.omega)
                   ELSE add_residue_AA_AA(struc, a.residue, a.phi, a.psi_im1, a.omega)} :
       threads' = [threads EXCEPT ![t] =
         IF out.exc # NoExc
           THEN [Waiting EXCEPT !.pc = "raised", !.f = f, !.exc = out.exc]
           ELSE [pc |-> "built", f |-> f,
                 saw |-> get_id(getReferenceResidue(struc).val),
                 res |-> LastMonomer(out.struc), value |-> out.ret,
                 geo |-> out.geo, exc |-> NoExc]]
  /\ UNCHANGED <<struc, op, arg, ret, exc, bundle, read, appended, built, given, geos, oxt>>
  /\ UNCHANGED nerfVars

\* structure[0]["A"].add(res) is Entity.add, which takes no lock: a check, an
\* append to child_list and an entry in child_dict, each a step of its own.

\* The threads whose monomer is in child_list and not yet in child_dict.
Unregistered(id) ==
  {u \in Threads : threads[u].pc = "appended" /\ get_id(threads[u].res) = id}
\* self.has_id(entity_id): entity_id in self.child_dict
chain_has_id(id) ==
  LET chain == Monomers(struc) IN
  Cardinality({i \in 1..Len(chain) : get_id(chain[i]) = id})
    > Cardinality(Unregistered(id))

\* if self.has_id(entity_id): raise PDBConstructionException
Check(t) ==
  /\ threads[t].pc = "built"
  /\ threads' = [threads EXCEPT ![t] =
       IF chain_has_id(get_id(threads[t].res))
         THEN [@ EXCEPT !.pc = "raised", !.exc = "PDBConstructionException"]
         ELSE [@ EXCEPT !.pc = "checked"]]
  /\ UNCHANGED <<struc, op, arg, ret, exc, bundle, read, appended, built, given, geos, oxt>>
  /\ UNCHANGED nerfVars

\* entity.set_parent(self); self.child_list.append(entity)
ListAppend(t) ==
  /\ threads[t].pc = "checked"
  /\ struc' = chain_append(struc, threads[t].res)
  /\ threads' = [threads EXCEPT ![t].pc = "appended"]
  /\ UNCHANGED <<op, arg, ret, exc, bundle, read, appended, built, given, geos, oxt>>
  /\ UNCHANGED nerfVars

\* self.child_dict[entity_id] = entity; return structure
Register(t) ==
  /\ threads[t].pc = "appended"
  /\ threads' = [threads EXCEPT ![t].pc = "returned"]
  /\ UNCHANGED <<struc, op, arg, ret, exc, bundle, read, appended, built, given, geos, oxt>>
  /\ UNCHANGED nerfVars

NextRace == \E t \in Threads : Begin(t) \/ Check(t) \/ ListAppend(t) \/ Register(t)

SpecRace == InitRace /\ [][NextRace]_vars
\* ------------------------------------------------------------ the claims

\* What the claims speak of.
Named(res, name) == {i \in 1..Len(res.child_list) : res.child_list[i].name = name}
Cappable(structure) ==
  /\ Monomers(structure) # <<>>
  /\ is_aa(LastMonomer(structure))
  /\ \A k \in {"N", "CA", "C", "O"} : has_id(LastMonomer(structure), k)
Capped(structure) ==
  \E i \in 1..Len(Monomers(structure)) : has_id(Monomers(structure)[i], "OXT")
Appended == op \in Appends /\ exc = NoExc

\* C1: after initialize and N successful appends, whatever the variants,
\* chain A holds exactly N+1 monomers and their sequence numbers are
\* 1, 2, ..., N+1 in chain order.
C1_Numbering ==
  Monomers(struc) # <<>> =>
    /\ Len(Monomers(struc)) = appended + 1
    /\ \A i \in 1..Len(Monomers(struc)) : get_id(Monomers(struc)[i]) = i
C1_Witness ==
  /\ Appended
  /\ appended = MaxMonomers - 1
  /\ get_id(LastMonomer(struc)) = MaxMonomers

\* C2: every append variant that succeeds returns the Structure instance it
\* was given, not a monomer and not a copy.
C2_ReturnsSameInstance == Appended => ret = "structure"

\* C3: a successful append adds exactly one monomer at the end and leaves
\* every earlier monomer as it was; no call removes or reorders a monomer.
C3_AppendOnly ==
  [][ /\ Len(Monomers(struc')) >= Len(Monomers(struc))
      /\ \A i \in 1..Len(Monomers(struc)) :
           get_id(Monomers(struc')[i]) = get_id(Monomers(struc)[i])
      /\ (op' \in Appends /\ exc' = NoExc) =>
           /\ Len(Monomers(struc')) = Len(Monomers(struc)) + 1
           /\ SubSeq(Monomers(struc'), 1, Len(Monomers(struc))) = Monomers(struc)
    ]_vars
C3_Witness == Appended /\ Len(Monomers(struc)) = MaxMonomers

\* C4: one cap on an assembly whose last monomer has N, CA, C and O, and no
\* OXT yet, adds one atom named OXT to the last monomer and nothing else:
\* every other monomer and every earlier atom stays, the number of monomers
\* stays, and the call returns the instance it was given.
C4_CapAddsOneAtom ==
  [][ (op' = "add_terminal_OXT" /\ Cappable(struc) /\ ~has_id(LastMonomer(struc), "OXT")) =>
        /\ exc' = NoExc
        /\ ret' = "structure"
        /\ Len(Monomers(struc')) = Len(Monomers(struc))
        /\ \A i \in 1..(Len(Monomers(struc)) - 1) : Monomers(struc')[i] = Monomers(struc)[i]
        /\ get_id(LastMonomer(struc')) = get_id(LastMonomer(struc))
        /\ LastMonomer(struc').resname = LastMonomer(struc).resname
        /\ Len(LastMonomer(struc').child_list) = Len(LastMonomer(struc).child_list) + 1
        /\ SubSeq(LastMonomer(struc').child_list, 1, Len(LastMonomer(struc).child_list))
             = LastMonomer(struc).child_list
        /\ LastMonomer(struc').child_list[Len(LastMonomer(struc').child_list)].name = "OXT"
    ]_vars
C4_Witness ==
  /\ op = "add_terminal_OXT" /\ exc = NoExc
  /\ Len(Monomers(struc)) = MaxMonomers
  /\ Cardinality(Named(LastMonomer(struc), "OXT")) = 1

\* C5: a second cap on the same assembly does not raise; it adds a second
\* atom named OXT, so the last monomer then holds two.
C5_SecondCapAddsSecondOXT ==
  [][ (op' = "add_terminal_OXT" /\ Cappable(struc) /\ has_id(LastMonomer(struc), "OXT")) =>
        /\ exc' = NoExc
        /\ Cardinality(Named(LastMonomer(struc'), "OXT")) = 2
    ]_vars

\* C6: Capped is terminal: once cap has run on an assembly, no later call
\* adds a monomer to it.
C6_CappedIsTerminal ==
  [][ Capped(struc) => Len(Monomers(struc')) = Len(Monomers(struc)) ]_vars

\* C7: for every reference triple A, B, C not on one line and every D other
\* than C, calculateCoordinates(A, B, C, dist(C, D), angle(B, C, D),
\* dihedral(A, B, C, D)) returns D.
C7_RoundTrip ==
  (Evaluated /\ ~Collinear /\ pD # pC) => RoundTrips

\* C8: a residue argument that is neither a Geo nor a string makes
\* initialize and every append variant raise ValueError before the reference
\* residue is read and with the assembly left as it was.
C8_InvalidArgument ==
  [][ (op' \in Initializers \cup Appends /\ arg'.residue.py \notin {"Geo", "str"}) =>
        /\ exc' = "ValueError"
        /\ ~read'
        /\ ret' = "none"
        /\ struc' = struc
    ]_vars
C8_Witness ==
  /\ op \in Appends
  /\ arg.residue = IntArg
  /\ exc = "ValueError"
  /\ Monomers(struc) # <<>>

\* C9: append and cap on an assembly without a monomer (no model 0, no
\* chain A, or an empty chain A) add nothing and never make the first
\* monomer; a call that gets as far as getReferenceResidue fails there, with
\* KeyError for a missing model or chain and IndexError for an empty chain,
\* and every cap and every append given a bundle or a catalog kind gets there.
C9_EmptyAssembly ==
  [][ (op' \in Appends \cup {"add_terminal_OXT"} /\ Monomers(struc) = <<>>) =>
        /\ struc' = struc
        /\ exc' # NoExc
        /\ read' =>
             exc' = IF entity_has(struc, 0) /\ entity_has(entity_get(struc, 0), "A")
                      THEN "IndexError" ELSE "KeyError"
        /\ (op' = "add_terminal_OXT" \/ arg'.residue.py = "Geo"
              \/ (arg'.residue.py = "str" /\ arg'.residue.s \in GeoTypes)) => read'
    ]_vars
C9_Witness ==
  /\ op \in Appends
  /\ Monomers(struc) = <<>>
  /\ entity_has(struc, 0)
  /\ read
  /\ exc = "IndexError"

\* C10: in an append given a kind identifier, an omega below -360 (such as
\* -360.5, or the default -370) leaves the bundle's omega at the catalog's
\* value, and an omega of -360 or more replaces it.
C10_OmegaSentinel ==
  (op \in Appends /\ arg.residue.py = "str" /\ bundle # NoGeo) =>
    bundle.omega = IF arg.omega < Deg(-360) THEN Deg(CatalogOmega) ELSE arg.omega


\* C11: an append given a kind name assigns phi, psi_im1 and omega of the
\* bundle it has just looked up (omega unless it is the default -370, always
\* when it is -360 or more) and leaves every other entry of the bundle at
\* the catalog's value.
C11_OnlyThreeEntries ==
  (op \in Appends /\ arg.residue.py = "str" /\ bundle # NoGeo) =>
    LET catalog == geometry(arg.residue.s).val IN
    /\ bundle = [catalog EXCEPT !.phi = arg.phi, !.psi_im1 = arg.psi_im1,
                                !.omega = bundle.omega]
    /\ bundle.omega \in {arg.omega, catalog.omega}
    /\ arg.omega = Deg(DefaultOmega) => bundle.omega = catalog.omega
    /\ arg.omega >= Deg(-360) => bundle.omega = arg.omega
C11_Witness ==
  /\ op \in Appends /\ exc = NoExc
  /\ arg.residue.py = "str"
  /\ <<arg.phi, arg.psi_im1, arg.omega>> = Helix
  /\ <<bundle.phi, bundle.psi_im1, bundle.omega>> = Helix

\* C12: an append given a bundle builds from that bundle as it is, and the
\* assembly it leaves (or the exception it raises) is the same with the
\* default phi, psi_im1 and omega as with angles of the caller's own.
C12_GeoIgnoresAngles ==
  [][ (op' \in Appends /\ arg'.residue.py = "Geo") =>
        /\ bundle' = arg'.residue.geo
        /\ \A a \in {Defaults, Helix} \ {<<arg'.phi, arg'.psi_im1, arg'.omega>>} :
             LET other == Apply(op', struc, arg'.residue, a[1], a[2], a[3]) IN
             other.struc = struc' /\ other.exc = exc' /\ other.geo = bundle'
    ]_vars
C12_Witness ==
  /\ op \in Appends /\ exc = NoExc
  /\ arg.residue.py = "Geo"
  /\ <<arg.phi, arg.psi_im1, arg.omega>> = Helix
  /\ bundle.phi = Deg(CatalogPhi)

\* The classes of the elements a chain maker was given.
ElementTypes ==
  [i \in 1..Len(given.elems) |->
     IF op = "make_structure_from_geos" THEN given.elems[i].geo.type
                                        ELSE given.elems[i]]
LongEnough ==
  op = "make_structure" =>
    /\ Len(given.phi) >= Len(given.elems) - 1
    /\ Len(given.psi_im1) >= Len(given.elems) - 1
    /\ (given.omega.none \/ Len(given.omega.list) = 0
          \/ Len(given.omega.list) >= Len(given.elems) - 1)
\* C13: make_structure (with angle lists of at least len - 1 entries),
\* make_structure_from_geos and make_extended_structure return an assembly
\* of exactly len monomers, numbered 1..len and made in that order, monomer
\* i built from element i, in make_structure with the (i-1)th entry of phi,
\* of psi_im1 and of omega for i >= 2, and with no OXT atom.  It is stated
\* here for one element or more, each of a class of the catalog: it fails
\* even so.
C13_ChainMakers ==
  (/\ op \in Makers
   /\ Len(given.elems) >= 1
   /\ \A i \in 1..Len(given.elems) : ElementTypes[i] \in GeoTypes
   /\ LongEnough) =>
    LET n == Len(given.elems) IN
    /\ exc = NoExc
    /\ Len(Monomers(struc)) = n
    /\ built = [i \in 1..n |-> i]
    /\ Len(geos) = n
    /\ \A i \in 1..n :
         LET res == Monomers(struc)[i] IN
         /\ get_id(res) = i
         /\ ~has_id(res, "OXT")
         /\ \A k \in 1..Len(res.child_list) :
              res.child_list[k].coord.geo = ElementTypes[i]
         /\ geos[i].type = ElementTypes[i]
         /\ (op # "make_structure" \/ i = 1) =>
              geos[i] = Geo(ElementTypes[i], {})
         /\ (op = "make_structure" /\ i >= 2) =>
              /\ geos[i].phi = given.phi[i - 1]
              /\ geos[i].psi_im1 = given.psi_im1[i - 1]
              /\ geos[i].omega =
                   IF given.omega.none \/ Len(given.omega.list) = 0
                     THEN Deg(CatalogOmega)
                     ELSE given.omega.list[i - 1]
\* What remains true: a chain maker fails for an element of a class that
\* make_res_of_type_aa does not name, and for those it names it returns the
\* assembly C13 describes.
C13_AuxNamed ==
  (/\ op \in Makers
   /\ Len(given.elems) >= 1
   /\ \A i \in 1..Len(given.elems) : ElementTypes[i] \in GeoTypes
   /\ LongEnough) =>
    (exc = NoExc <=>
       \A i \in 1..Len(given.elems) : ElementTypes[i] \in {"AAGeo", "AA_AAGeo", "HfsGeo", "HssGeo", "AA_odd_Geo", "AA_even_Geo"})
C13_AuxShape ==
  (op \in Makers /\ exc = NoExc) =>
    LET n == Len(given.elems) IN
    /\ Len(Monomers(struc)) = n
    /\ built = [i \in 1..n |-> i]
    /\ \A i \in 1..n :
         /\ get_id(Monomers(struc)[i]) = i
         /\ ~has_id(Monomers(struc)[i], "OXT")
         /\ geos[i].type = ElementTypes[i]

\* C14: the monomers of chain A, walked in container order, are the monomers
\* in the order they were made, and their sequence numbers increase.
C14_TraversalOrder ==
  LET ids == [i \in 1..Len(Monomers(struc)) |-> get_id(Monomers(struc)[i])] IN
  /\ ids = built
  /\ \A i \in 1..Len(ids) : \A j \in 1..Len(ids) : i < j => ids[i] < ids[j]
C14_Witness ==
  /\ op = "add_terminal_OXT" /\ exc = NoExc
  /\ appended = MaxMonomers - 1
  /\ Len(built) = MaxMonomers

\* C15: an assembly that holds a monomer owns exactly one model, model 0,
\* and that model owns exactly one chain, chain A.
C15_OneModelOneChain ==
  Monomers(struc) # <<>> =>
    /\ Len(struc.child_list) = 1
    /\ struc.child_list[1].id = 0
    /\ Len(struc.child_list[1].child_list) = 1
    /\ struc.child_list[1].child_list[1].id = "A"
C15_Witness ==
  /\ Appended
  /\ Len(Monomers(struc)) = MaxMonomers
  /\ Len(struc.child_list) = 1
  /\ Len(struc.child_list[1].child_list) = 1

\* C16: the atom placed by calculateCoordinates(refA, refB, refC, L, ang, di)
\* for reference atoms that are not on one line lies at distance L from refC.
C16_BondLength ==
  (Evaluated /\ ~Collinear) =>
    placedAt.kind = "point" /\ GotLength = QInt(AskedLength.sq)

\* C17: the dihedral refA-refB-refC-D of the atom D placed by
\* calculateCoordinates(refA, refB, refC, L, ang, di), for reference atoms
\* that are not on one line, is di modulo 360 degrees.
C17_Dihedral ==
  (Evaluated /\ ~Collinear) =>
    placedAt.kind = "point" /\ (GotDihedral - AskedDihedral) % 360 = 0

\* C18: with a bond length of 0 calculateCoordinates returns the position of
\* refC: a point, neither NaN nor an error.
C18_ZeroLength ==
  (Evaluated /\ ~Collinear /\ AskedLength.sq = 0) =>
    placedAt.kind = "point" /\ placedAt.at = QVec(pC)

\* C19: the three reference atoms of every placement are atoms of the same
\* monomer that stand before the placed atom, or atoms of the monomer just
\* before it in the chain; none belongs to an older monomer or to a later
\* one.  Stated of every monomer a call makes or changes.
WellReferenced(structure, i) ==
  LET res == Monomers(structure)[i] IN
  \A k \in 1..Len(res.child_list) :
    LET refs == res.child_list[k].coord.refs IN
    \A x \in 1..Len(refs) :
      \/ /\ refs[x][1] = get_id(res)
         /\ \E j \in 1..(k - 1) : res.child_list[j].name = refs[x][2]
      \/ /\ refs[x][1] = get_id(res) - 1
         /\ i > 1
         /\ has_id(Monomers(structure)[i - 1], refs[x][2])
C19_NoForwardReferences ==
  [][ struc' # struc =>
        \A i \in 1..Len(Monomers(struc')) :
          (i > Len(Monomers(struc)) \/ Monomers(struc')[i] # Monomers(struc)[i])
            => WellReferenced(struc', i)
    ]_vars
C19_Witness ==
  /\ op = "add_terminal_OXT" /\ exc = NoExc
  /\ Len(Monomers(struc)) = MaxMonomers
  /\ LET res == LastMonomer(struc) IN
     /\ \E k \in 1..Len(res.child_list) :
          /\ res.child_list[k].coord.refs # <<>>
          /\ res.child_list[k].coord.refs[1][1] = get_id(res) - 1
     /\ \E k \in 1..Len(res.child_list) :
          /\ res.child_list[k].name = "OXT"
          /\ res.child_list[k].coord.refs[1][1] = get_id(res)

\* C20: the atoms of every monomer have pairwise distinct names, and no
\* initialize, append or chain maker is refused an atom for its name.
C20_DistinctNames ==
  /\ \A i \in 1..Len(Monomers(struc)) :
       LET res == Monomers(struc)[i] IN
       Cardinality({res.child_list[k].name : k \in 1..Len(res.child_list)})
         = Len(res.child_list)
  /\ op \in Initializers \cup Appends \cup Makers => exc # "PDBConstructionException"
C20_Witness ==
  /\ Appended
  /\ Len(Monomers(struc)) = MaxMonomers
  /\ LastMonomer(struc).child_list[1].coord.geo = "LssGeo"
  /\ Len(LastMonomer(struc).child_list) > 20

\* C21: a placement step given a collinear reference triple (the cross
\* product of A-C and B-C is the zero vector) raises: calculateCoordinates
\* leaves by an exception and hands no coordinates, nan included, to the
\* caller that would add the atom.
C21_CollinearAborts ==
  (Evaluated /\ Collinear) => placedAt.kind \notin {"point", "nan"}

\* C22: the cap asks for an OXT at the length it was given (1.23 when left
\* out), at the measured CA-C-O angle, and at the measured N-CA-C-O
\* dihedral d less 180 when d >= 0, plus 180 when d < 0; for d within
\* [-180, 180] the dihedral asked for lies within [-180, 180] and is 180
\* away from d.  The OXT atom of a successful cap carries that length.
C22_CapParameters ==
  (op = "add_terminal_OXT" /\ ~oxt.none) =>
    LET d == oxt.measured.N_CA_C_O_diangle
        di == oxt.asked.di
    IN  /\ oxt.asked.ang = oxt.measured.CA_C_O_angle
        /\ d >= 0 => di = d - Deg(180)
        /\ d < 0 => di = d + Deg(180)
        /\ (Deg(-180) <= d /\ d <= Deg(180)) =>
             (Deg(-180) <= di /\ di <= Deg(180) /\ Abs(di - d) = Deg(180))
        /\ arg.C_OXT_length.none => oxt.asked.L = DefaultOXTLength
        /\ ~arg.C_OXT_length.none => oxt.asked.L = arg.C_OXT_length.val
        /\ exc = NoExc =>
             LET res == LastMonomer(struc) IN
             \A k \in Named(res, "OXT") :
               /\ res.child_list[k].coord.given = oxt.asked.L
               /\ res.child_list[k].coord.args
                    = <<"C_OXT_length", "CA_C_OXT_angle", "N_CA_C_OXT_diangle">>
\* A cap given a length of its own, on a residue measuring a negative
\* dihedral, has added the OXT.
C22_Witness ==
  /\ op = "add_terminal_OXT" /\ exc = NoExc /\ ~oxt.none
  /\ ~arg.C_OXT_length.none /\ arg.C_OXT_length.val # DefaultOXTLength
  /\ oxt.measured.N_CA_C_O_diangle = Deg(-45)
  /\ oxt.asked.di = Deg(135)
  /\ Named(LastMonomer(struc), "OXT") # {}

\* Both calls read the reference residue before either added its monomer.
Racing ==
  /\ \A t \in Threads : threads[t].res # None
  /\ threads[1].saw = threads[2].saw
Finished == \A t \in Threads : threads[t].pc \in {"returned", "raised"}
\* The chain ends with two monomers numbered k+1 and k+2.
EndsWithTwo(k) ==
  LET n == Len(Monomers(struc)) IN
  /\ n >= 2
  /\ get_id(Monomers(struc)[n - 1]) = k + 1
  /\ get_id(Monomers(struc)[n]) = k + 2

\* Both calls are over without an exception.
BothReturned == \A t \in Threads : threads[t].pc = "returned"
\* The chain ends with two monomers that are both numbered k+1.
EndsWithTwins(k) ==
  LET chain == Monomers(struc)
      n == Len(chain)
  IN  /\ n >= 2
      /\ get_id(chain[n - 1]) = k + 1
      /\ get_id(chain[n]) = k + 1

\* C23: two append calls that both read the reference residue (numbered k)
\* before either adds compute the same number k+1 and refer to the atoms of
\* the same monomer k; the chain never ends with monomers k+1 and k+2.  Once
\* both are over, either one has added its monomer and the other was refused,
\* or both passed the check of the add before either appended and the chain
\* ends with two monomers numbered k+1.  Calls that run one after the other
\* do leave k+1 and k+2.
C23_Race ==
  /\ Racing =>
       LET k == threads[1].saw IN
       /\ \A t \in Threads :
            /\ get_id(threads[t].res) = k + 1
            /\ \A i \in 1..Len(threads[t].res.child_list) :
                 LET refs == threads[t].res.child_list[i].coord.refs IN
                 \A x \in 1..Len(refs) : refs[x][1] \in {k, k + 1}
            /\ threads[t].res.child_list[1].coord.refs[1][1] = k
       /\ ~EndsWithTwo(k)
       /\ Finished =>
            /\ get_id(LastMonomer(struc)) = k + 1
            /\ \/ /\ BothReturned
                  /\ EndsWithTwins(k)
               \/ /\ ~EndsWithTwins(k)
                  /\ \E t \in Threads :
                       /\ threads[t].pc = "returned"
                       /\ \A u \in Threads \ {t} :
                            /\ threads[u].pc = "raised"
                            /\ threads[u].exc = "PDBConstructionException"
  /\ (BothReturned /\ ~Racing) =>
       EndsWithTwo(get_id(Monomers(struc)[1]))
\* Both calls read monomer 1 and passed the check before either appended:
\* both returned, and the chain holds monomers 1, 2 and 2.
C23_Witness ==
  /\ Racing /\ BothReturned
  /\ threads[1].saw = 1
  /\ threads[1].f # threads[2].f
  /\ Len(Monomers(struc)) = 3
  /\ EndsWithTwins(1)

\* C24: an append given a kind identifier places the new monomer with the
\* phi, psi_im1 and omega it was given: each of the three bundle entries is
\* read by at least one calculateCoordinates call of the new monomer.
C24_AnglesUsed ==
  (Appended /\ arg.residue.py = "str" /\ arg.omega >= Deg(-360)) =>
    LET res == LastMonomer(struc) IN
    \A entry \in {"phi", "psi_im1", "omega"} :
      \E i \in 1..Len(res.child_list) :
        \E x \in 1..Len(res.child_list[i].coord.args) :
          res.child_list[i].coord.args[x] = entry

\* The family of the builder a monomer came from, by the class of the bundle
\* it was built from, and the atoms each append variant looks up in the
\* reference residue, by the family it appends to.
Family(res) ==
  LET type == res.child_list[1].coord.geo IN
  IF type \in {"AlaGeo", "Ala_odd_Geo", "Ala_even_Geo", "linker_Ala_Geo"} THEN "Ala"
  ELSE IF type \in {"AAGeo", "AA_AAGeo", "HfsGeo", "HssGeo", "AA_odd_Geo", "AA_even_Geo"}
    THEN "aa"
  ELSE IF type = "LinkerGeo" THEN "Linker"
  ELSE IF type = "LfsGeo" THEN "Lfs"
  ELSE IF type = "LssGeo" THEN "Lss"
  ELSE "none"
SourceFamily(f) ==
  IF f \in {"add_residue_ala_aa", "add_residue_alalinker"} THEN "Ala"
  ELSE IF f = "add_residue_linker_ala" THEN "Linker"
  ELSE IF f = "add_residue_linker2_1_aa" THEN "Lfs"
  ELSE IF f = "add_residue_linker2_3_aa" THEN "Lss"
  ELSE "aa"
Lookups(family) ==
  IF family = "Ala" THEN {"N", "CA", "C"}
  ELSE IF family = "aa" THEN {"NB", "CA", "C"}
  ELSE IF family = "Linker" THEN {"C12", "C13", "C4"}
  ELSE IF family = "Lfs" THEN {"C14", "CA", "C"}
  ELSE {"C16", "C17", "CL"}

\* C25: every monomer holds the atoms that the variants appending to its
\* family look up, and a variant applied to a last monomer of its source
\* family never fails on a missing atom.
C25_TransitionConsistency ==
  LET chain == Monomers(struc) IN
  /\ \A i \in 1..Len(chain) :
       LET family == Family(chain[i]) IN
       /\ family # "none"
       /\ \A name \in Lookups(family) : has_id(chain[i], name)
  /\ exc = "KeyError" =>
       ~(op \in Appends /\ chain # <<>>
           /\ SourceFamily(op) = Family(chain[Len(chain)]))
\* Three appends in a row, each to the family the one before it made: an
\* aa monomer, an Lss linker on it, and an aa monomer on the linker.
C25_Witness ==
  /\ op = "add_residue_linker2_3_aa" /\ exc = NoExc
  /\ Len(Monomers(struc)) = MaxMonomers
  /\ Family(Monomers(struc)[MaxMonomers - 1]) = "Lss"
  /\ Family(Monomers(struc)[MaxMonomers]) = "aa"

\* The bundle classes the dispatcher of each append variant names.
Recognized(f) ==
  IF f \in {"add_residue_aa_ala", "add_residue_linker_ala"}
    THEN {"AlaGeo", "Ala_odd_Geo", "Ala_even_Geo", "linker_Ala_Geo"}
  ELSE IF f = "add_residue_alalinker" THEN {"LinkerGeo"}
  ELSE IF f = "add_residue_aa_linker2_1" THEN {"LfsGeo"}
  ELSE IF f = "add_residue_aa_linker2_3" THEN {"LssGeo"}
  ELSE {"AAGeo", "AA_AAGeo", "HfsGeo", "HssGeo", "AA_odd_Geo", "AA_even_Geo"}

\* C26: an append that fails leaves the assembly exactly as it was, and an
\* append that changes the assembly was given a bundle of a class its
\* dispatcher names; a bundle of any other class makes the call fail.
C26_FailureAtomicity ==
  [][ op' \in Appends =>
        /\ exc' # NoExc => struc' = struc
        /\ struc' # struc => bundle'.type \in Recognized(op')
        /\ (bundle' # NoGeo /\ bundle'.type \notin Recognized(op')) => exc' # NoExc
    ]_vars
\* make_res_of_type_linker2_3 gave no monomer for a bundle that is not an
\* LssGeo, and the add of nothing failed with two monomers in the chain.
C26_Witness ==
  /\ op = "add_residue_aa_linker2_3" /\ exc = "AttributeError"
  /\ bundle.lacks = {} /\ bundle.type = "AAGeo"
  /\ Len(Monomers(struc)) = 2

\* C27: the last monomer of every assembly made by initialize and appends
\* holds atoms named N, CA, C and O, so that add_terminal_OXT finds its four
\* reference atoms and never fails on a missing one.
C27_CapAlwaysApplicable ==
  /\ Monomers(struc) # <<>> =>
       \A name \in {"N", "CA", "C", "O"} : has_id(LastMonomer(struc), name)
  /\ (op = "add_terminal_OXT" /\ Monomers(struc) # <<>>) => exc # "KeyError"

\* The divisors of calculateCoordinates for the reference points in hand:
\* denom, the divisor of Y and Z in the general branch, the two divisors of
\* the degenerate branch, and which branch the test at line 105 takes.
Divisors ==
  LET CA == Sub(pA, pC)
      CB == Sub(pB, pC)
      A == (CA[2] * CB[3]) - (CA[3] * CB[2])
      B == (CA[3] * CB[1]) - (CA[1] * CB[3])
      G == (CA[1] * CB[2]) - (CA[2] * CB[1])
      denom == (B * B) * (CB[1] * CB[1] + CB[3] * CB[3])
                 + (A * A) * (CB[2] * CB[2] + CB[3] * CB[3])
                 - (2 * A * CB[1] * CB[3] * G)
                 + (CB[1] * CB[1] + CB[2] * CB[2]) * (G * G)
                 - (2 * B * CB[2]) * (A * CB[1] + CB[3] * G)
  IN  [denom |-> denom,
       general |-> (B * CB[3] - CB[2] * G) * denom,
       forY |-> B * B + G * G,
       forZ |-> G * (B * B + G * G),
       degenerate |-> (B = 0 \/ CB[3] = 0) /\ (CB[2] = 0 \/ G = 0)]

\* C28: on reference points that are not on one line calculateCoordinates
\* divides by nothing that is zero: not by denom, not by
\* (B*BZ - BY*G)*denom in the general branch, not by B*B + G*G or
\* G*(B*B + G*G) in the degenerate branch; so it returns no nan.
C28_NoDivisionByZero ==
  (placedAt.kind \in {"point", "nan"} /\ ~Collinear) =>
    /\ Divisors.denom # 0
    /\ ~Divisors.degenerate => Divisors.general # 0
    /\ Divisors.degenerate => (Divisors.forY # 0 /\ Divisors.forZ # 0)
    /\ placedAt.kind # "nan"

\* Every atom name the module gives an Atom.
AtomNames ==
  {"S", "O1", "O2", "CD2", "CE1", "C1", "CZ", "NH", "CG2", "CD3", "SG",
   "OD2", "OD1", "CE2", "CZ1", "CE3", "CZ2", "CH", "Cl17", "C9", "C10",
   "C11", "O4", "O5", "C12", "CB", "N", "CA", "C", "O", "CG", "CD1", "NB",
   "N2", "N3", "C13", "C4", "C2", "C3", "C5", "C6", "C7", "C8", "N4",
   "C14", "NL", "C15", "C16", "C17", "CL", "O3", "OXT"}
\* A full name without its padding blanks.
Stripped(fullname) ==
  IF \E n \in AtomNames : fullname \in {" " \o n, n \o " ", " " \o n \o " "}
    THEN CHOOSE n \in AtomNames : fullname \in {" " \o n, n \o " ", " " \o n \o " "}
    ELSE fullname

\* C29: the full name of every atom, without its padding, is the atom's
\* name, and so the full names within a monomer are pairwise distinct.
C29_FullNames ==
  \A i \in 1..Len(Monomers(struc)) :
    LET res == Monomers(struc)[i] IN
    /\ \A k \in 1..Len(res.child_list) :
         Stripped(res.child_list[k].fullname) = res.child_list[k].name
    /\ Cardinality({res.child_list[k].fullname : k \in 1..Len(res.child_list)})
         = Len(res.child_list)

\* The label each builder family gives its monomers.
Label(family) ==
  IF family = "Ala" THEN "ALA"
  ELSE IF family = "aa" THEN "PHE"
  ELSE IF family = "Linker" THEN "GLY"
  ELSE "SER"

\* C30: every monomer is labelled ALA, PHE, SER or GLY, by the family of its
\* builder alone; is_aa knows each of them, and the assertion in
\* getReferenceResidue never fails.
C30_KindLabels ==
  LET chain == Monomers(struc) IN
  /\ \A i \in 1..Len(chain) :
       /\ chain[i].resname \in {"ALA", "PHE", "SER", "GLY"}
       /\ chain[i].resname = Label(Family(chain[i]))
       /\ is_aa(chain[i])
  /\ exc # "AssertionError"
\* An append has read a linker monomer, labelled GLY, as its reference
\* residue and added an ALA monomer after it.
C30_Witness ==
  /\ op = "add_residue_linker_ala" /\ exc = NoExc /\ read
  /\ Len(Monomers(struc)) = MaxMonomers
  /\ Monomers(struc)[MaxMonomers - 1].resname = "GLY"
  /\ LastMonomer(struc).resname = "ALA"
Next ==
  \/ InitializeResNatural
  \/ InitializeRes
  \/ AddResidueAlaAa
  \/ AddResidueAaAla
  \/ AddResidueAlalinker
  \/ AddResidueLinkerAla
  \/ AddResidue
  \/ AddResidueAAAA
  \/ AddResidueAaLinker21
  \/ AddResidueAaLinker23
  \/ AddResidueLinker21Aa
  \/ AddResidueLinker23Aa
  \/ AddTerminalOXT
  \/ MakeExtendedStructure
  \/ MakeStructure
  \/ MakeStructureFromGeos

Spec == Init /\ [][Next]_vars

====
